---------------------------- MODULE Spec2Model ----------------------------
(***************************************************************************)
(* WalletGlass MVP: funding / defunding extraction, counterparty           *)
(* classification and PnL aggregation (src/mvp/funding_v1.py,              *)
(* src/mvp/defunding.py, src/mvp/pnl.py), as called by src/app/app.py.     *)
(*                                                                         *)
(* Numbers.  Python floats are modelled as exact decimals held in          *)
(* integers:                                                               *)
(*   - token amounts (value_formatted) in thousandths of a unit,           *)
(*     so 0.009 is 9, 0.01 is 10 and one token is 1000;                    *)
(*   - every USD figure (a price, usd_value, an event's usd, a total, an   *)
(*     argument or result field of compute_pnl) in mills, thousandths of   *)
(*     a USD, so a value rounded to 2 decimals is a multiple of 10;        *)
(*   - roi_pct in hundredths of a percent, so 50.0 is 5000.                *)
(* round(x, 2) is round-half-to-even on the exact value (Round2, RoundDiv);*)
(* the binary representation error of a float is not modelled.             *)
(***************************************************************************)
EXTENDS Integers, Sequences, FiniteSets, TLC

VARIABLES
    fetch_cursor,     \* fetch_transactions: `cursor`, the cursor of the page fetched last
    price_cache,      \* mvp/price_cache.py: _price_cache
    engine_cache,     \* pricing_engine.py: _price_cache
    util_cache,       \* utils/price_cache.py: the cache dict the caller passes
    lookup,           \* the price lookup made last and what it returned, None before
    pnl_calls,        \* the calls of compute_pnl made directly: arguments and result
    wallet_funding_file, \* funding.py: the list saved to data/wallet_funding.json, None before
    remote_answers,   \* what a remote price source has answered to each request so far
    portfolio_raw,    \* balances_moralis: the items saved to wallet_portfolio_raw.json, None before
    portfolio,        \* what get_portfolio returned, None before or when it raised
    clock,            \* datetime.utcnow(), in minutes
    rate_db,          \* data/rate_limit.json: for each email key its record, or None
    rate_call,        \* the call of enforce_rate_limit made last and its outcome, None before
    sessions,         \* app.py: for each browser session, where its call of enforce_rate_limit is
    grants,           \* the new-address requests enforce_rate_limit has granted: key, address, time
    app,              \* app.py: one session's st.session_state and the script run in progress
    last_address_file \* data/last_address.json: the address saved last, None before

(***************************************************************************)
(* Python values                                                           *)
(***************************************************************************)
\* Python's None / a present value, for a field that holds a number.
None == << >>

Some(v) == << v >>

IsNone(o) == o = << >>

Val(o) == o[1]

\* bool(x) of an optional number: None and 0 are falsy.
Truthy(o) == ~IsNone(o) /\ Val(o) # 0

\* Python's `a or b`.
PyOr(a, b) == IF Truthy(a) THEN a ELSE b

\* A dict key that is not there, and a key that holds JSON null, for a string field.
Absent == "<absent>"

Null == "<null>"

\* dict.get(key, default) of a string field.
GetStr(raw, default) == IF raw = Absent THEN default ELSE raw

\* bool(s) of a string-or-None field after get().
TruthyStr(s) == s # Null /\ s # ""

\* str.lower() on the addresses of the model.
Lower(a) ==
    CASE a = "0xT" -> "0xt"
      [] a = "0xK" -> "0xk"
      [] a = "0xW" -> "0xw"
      [] a = "0xD" -> "0xd"
      [] OTHER -> a

\* round(n / d, 0) for d > 0: round half to even on the exact quotient.
RoundDiv(n, d) ==
    LET q == n \div d
        r == n % d
    IN  IF 2 * r < d THEN q
        ELSE IF 2 * r > d THEN q + 1
        ELSE IF q % 2 = 0 THEN q ELSE q + 1

\* round(x, 2) of the USD value x = n / d mills (d > 0), answered in mills.
Round2(n, d) == 10 * RoundDiv(n, 10 * d)

(***************************************************************************)
(* Module constants and configuration data                                 *)
(***************************************************************************)
\* WALLET of funding_v1.py and defunding.py, already lower-cased.
WALLET == Lower("0xW")

\* data/known_funding_sources.json and data/known_withdrawal_sinks.json.
KNOWN_SOURCES == {"0xs"}

KNOWN_SINKS == {"0xk"}

\* data/eth_price_db.json: date -> USD price of one ETH (185.37), in mills.
ETH_PRICE_DB == [d \in {"2024-01-01"} |-> 185370]

\* amount < 0.01 and amount < 1, in thousandths.
EthDustFloor == 10

Erc20Floor == 1000

\* usd > 1_000_000 of funding_v1.parse_erc20, in mills.
UsdCeiling == 1000000000

(***************************************************************************)
(* The contract-check collaborator (Etherscan getsourcecode)               *)
(***************************************************************************)
\* What one requests.get(...) of is_contract can come back with: the call
\* raises (timeout, connection error), or answers with a status code and a
\* body that is JSON or not, whose "result" is a list of entries or not.
RespTimeout ==
    [raises |-> TRUE, status_code |-> 0, json_ok |-> FALSE, is_list |-> FALSE, abis |-> << >>]

RespNon200 ==
    [raises |-> FALSE, status_code |-> 500, json_ok |-> FALSE, is_list |-> FALSE, abis |-> << >>]

RespNotJson ==
    [raises |-> FALSE, status_code |-> 200, json_ok |-> FALSE, is_list |-> FALSE, abis |-> << >>]

RespResultNotList ==
    [raises |-> FALSE, status_code |-> 200, json_ok |-> TRUE, is_list |-> FALSE, abis |-> << >>]

RespUnverified ==
    [raises |-> FALSE, status_code |-> 200, json_ok |-> TRUE, is_list |-> TRUE,
     abis |-> << "Contract source code not verified" >>]

RespVerified ==
    [raises |-> FALSE, status_code |-> 200, json_ok |-> TRUE, is_list |-> TRUE,
     abis |-> << "[{\"type\":\"function\"}]" >>]

Responses ==
    {RespTimeout, RespNon200, RespNotJson, RespResultNotList, RespUnverified, RespVerified}

\* The responses that are a failure of the collaborator, not an answer.
FailedResponses == {RespTimeout, RespNon200, RespNotJson, RespResultNotList}

\* A contract check that fails closed: a request that raises counts as a contract.
is_contract_fails_closed(address, res) ==
    IF res.raises THEN TRUE
    ELSE IF res.status_code # 200 THEN FALSE
    ELSE IF ~res.json_ok THEN FALSE
    ELSE IF ~res.is_list \/ Len(res.abis) = 0 THEN FALSE
    ELSE res.abis[1] \notin {"", "Contract source code not verified"}

\* is_contract(address) of funding_v1.py and defunding.py (the same text), given
\* what the request came back with.
is_contract(address, res) ==
    IF res.raises THEN FALSE
    ELSE IF res.status_code # 200 THEN FALSE
    ELSE IF ~res.json_ok THEN FALSE
    ELSE IF ~res.is_list \/ Len(res.abis) = 0 THEN FALSE
    ELSE res.abis[1] \notin {"", "Contract source code not verified"}

\* get_eth_usd_price(date): ETH_PRICE_DB.get(date).
get_eth_usd_price(date) ==
    IF date \in DOMAIN ETH_PRICE_DB THEN Some(ETH_PRICE_DB[date]) ELSE None

\* label_funding_source(sender): status, reason, and the contract checks it made.
label_funding_source(sender, res) ==
    LET s == Lower(sender)
    IN  IF s \in KNOWN_SOURCES
        THEN [status |-> "accepted", reason |-> "known_source", calls |-> << >>]
        ELSE IF is_contract(s, res)
        THEN [status |-> "rejected", reason |-> "from_contract_not_in_registry",
              calls |-> << [address |-> s, response |-> res] >>]
        ELSE [status |-> "eoa", reason |-> "from_eoa_not_in_registry",
              calls |-> << [address |-> s, response |-> res] >>]

\* A sink labelling that looks the receiver up in the registry of sources.
label_defunding_sink_by_sources(receiver, res) ==
    LET r == Lower(receiver)
    IN  IF r \in KNOWN_SOURCES
        THEN [status |-> "accepted", reason |-> "known_sink", calls |-> << >>]
        ELSE IF is_contract(r, res)
        THEN [status |-> "rejected", reason |-> "to_contract_not_in_registry",
              calls |-> << [address |-> r, response |-> res] >>]
        ELSE [status |-> "eoa", reason |-> "to_eoa_not_in_registry",
              calls |-> << [address |-> r, response |-> res] >>]

\* label_defunding_sink(receiver).
label_defunding_sink(receiver, res) ==
    LET r == Lower(receiver)
    IN  IF r \in KNOWN_SINKS
        THEN [status |-> "accepted", reason |-> "known_sink", calls |-> << >>]
        ELSE IF is_contract(r, res)
        THEN [status |-> "rejected", reason |-> "to_contract_not_in_registry",
              calls |-> << [address |-> r, response |-> res] >>]
        ELSE [status |-> "eoa", reason |-> "to_eoa_not_in_registry",
              calls |-> << [address |-> r, response |-> res] >>]

(***************************************************************************)
(* The extractors.  A parse function walks the sub-transfers of one raw    *)
(* record; acc holds the results list built so far and the contract checks *)
(* made so far while this record is parsed, and oracle[k] is what the k-th *)
(* of those checks comes back with.                                        *)
(***************************************************************************)
\* tx["block_timestamp"][:10]
DateOf(tx) == tx.block_timestamp.date

\* funding_v1.parse_eth / parse_erc20: `if to_addr != WALLET or from_addr == WALLET: continue`.
funding_not_inbound(to_addr, from_addr) == to_addr # WALLET \/ from_addr = WALLET

\* An outbound filter without the test of the receiver.
defunding_not_outbound_any_receiver(from_addr, to_addr, target_wallet) ==
    from_addr # target_wallet

\* defunding.parse_eth / parse_erc20:
\* `if from_addr != target_wallet or to_addr == target_wallet: continue`.
defunding_not_outbound(from_addr, to_addr, target_wallet) ==
    from_addr # target_wallet \/ to_addr = target_wallet

\* A dust floor that is exclusive at 0.01.
eth_is_dust_exclusive(amount) == amount <= 10

\* parse_eth of both modules: `if amount < 0.01: continue`.
eth_is_dust(amount) == amount < EthDustFloor

\* parse_erc20 of both modules: `if amount < 1 or symbol == "UNKNOWN": continue`.
erc20_is_skipped(amount, symbol) == amount < Erc20Floor \/ symbol = "UNKNOWN"

\* funding_v1.parse_erc20: usd = float(tx.get("value", 0)), in mills.
funding_erc20_usd(tx) == IF IsNone(tx.value) THEN 0 ELSE Val(tx.value)

\* funding_v1.parse_erc20: `if usd <= 0 or usd > 1_000_000: continue`.
funding_erc20_usd_rejected(usd) == usd <= 0 \/ usd > UsdCeiling

\* defunding.parse_erc20: usd_value or usdValue of the sub-transfer, else the
\* record's value (or 0), in mills.
defunding_erc20_usd(t, tx) ==
    LET given == PyOr(t.usd_value, t.usdValue)
    IN  IF ~IsNone(given) THEN Val(given)
        ELSE IF Truthy(tx.value) THEN Val(tx.value) ELSE 0

\* A parse_eth that classifies the sender before it looks at the amount and
\* the price: the contract check is made also for a transfer it then drops.
RECURSIVE funding_parse_eth_checks_first(_, _, _, _)
funding_parse_eth_checks_first(tx, k, oracle, acc) ==
    IF k > Len(tx.native_transfers) THEN acc
    ELSE
    LET t == tx.native_transfers[k]
        to_addr == Lower(t.to_address)
        from_addr == Lower(t.from_address)
        amount == t.value_formatted
        date == DateOf(tx)
        usd_price == get_eth_usd_price(date)
        usd == Round2(Val(usd_price) * amount, 1000)
        lab == label_funding_source(from_addr, oracle[Len(acc.calls) + 1])
        checked == [results |-> acc.results, calls |-> acc.calls \o lab.calls]
    IN  IF funding_not_inbound(to_addr, from_addr)
        THEN funding_parse_eth_checks_first(tx, k + 1, oracle, acc)
        ELSE IF eth_is_dust(amount) \/ IsNone(usd_price)
        THEN funding_parse_eth_checks_first(tx, k + 1, oracle, checked)
        ELSE funding_parse_eth_checks_first(tx, k + 1, oracle,
                [results |-> Append(acc.results,
                    [hash |-> tx.hash, block |-> tx.block_number, timestamp |-> date,
                     token |-> "ETH", from |-> from_addr, amount |-> amount,
                     usd |-> usd, status |-> lab.status, reason |-> lab.reason]),
                 calls |-> checked.calls])

\* funding_v1.parse_eth: the loop body for native_transfers[k], k onwards.
RECURSIVE funding_parse_eth_from(_, _, _, _)
funding_parse_eth_from(tx, k, oracle, acc) ==
    IF k > Len(tx.native_transfers) THEN acc
    ELSE
    LET t == tx.native_transfers[k]
        to_addr == Lower(t.to_address)
        from_addr == Lower(t.from_address)
        amount == t.value_formatted
        date == DateOf(tx)
        usd_price == get_eth_usd_price(date)
        usd == Round2(Val(usd_price) * amount, 1000)
        lab == label_funding_source(from_addr, oracle[Len(acc.calls) + 1])
    IN  IF funding_not_inbound(to_addr, from_addr)
        THEN funding_parse_eth_from(tx, k + 1, oracle, acc)
        ELSE IF eth_is_dust(amount)
        THEN funding_parse_eth_from(tx, k + 1, oracle, acc)
        ELSE IF IsNone(usd_price)
        THEN funding_parse_eth_from(tx, k + 1, oracle, acc)
        ELSE funding_parse_eth_from(tx, k + 1, oracle,
                [results |-> Append(acc.results,
                    [hash |-> tx.hash, block |-> tx.block_number, timestamp |-> date,
                     token |-> "ETH", from |-> from_addr, amount |-> amount,
                     usd |-> usd, status |-> lab.status, reason |-> lab.reason]),
                 calls |-> acc.calls \o lab.calls])

\* funding_v1.parse_erc20: the loop body for erc20_transfers[k], k onwards.
RECURSIVE funding_parse_erc20_from(_, _, _, _)
funding_parse_erc20_from(tx, k, oracle, acc) ==
    IF k > Len(tx.erc20_transfers) THEN acc
    ELSE
    LET t == tx.erc20_transfers[k]
        to_addr == Lower(t.to_address)
        from_addr == Lower(t.from_address)
        symbol == GetStr(t.token_symbol, "UNKNOWN")
        amount == t.value_formatted
        usd == funding_erc20_usd(tx)
        lab == label_funding_source(from_addr, oracle[Len(acc.calls) + 1])
    IN  IF funding_not_inbound(to_addr, from_addr)
        THEN funding_parse_erc20_from(tx, k + 1, oracle, acc)
        ELSE IF erc20_is_skipped(amount, symbol)
        THEN funding_parse_erc20_from(tx, k + 1, oracle, acc)
        ELSE IF funding_erc20_usd_rejected(usd)
        THEN funding_parse_erc20_from(tx, k + 1, oracle, acc)
        ELSE funding_parse_erc20_from(tx, k + 1, oracle,
                [results |-> Append(acc.results,
                    [hash |-> tx.hash, block |-> tx.block_number, timestamp |-> DateOf(tx),
                     token |-> symbol, from |-> from_addr, amount |-> amount,
                     usd |-> Round2(usd, 1), status |-> lab.status, reason |-> lab.reason]),
                 calls |-> acc.calls \o lab.calls])

\* defunding.parse_eth(tx, target_wallet).
RECURSIVE defunding_parse_eth_from(_, _, _, _, _)
defunding_parse_eth_from(tx, target_wallet, k, oracle, acc) ==
    IF k > Len(tx.native_transfers) THEN acc
    ELSE
    LET t == tx.native_transfers[k]
        from_addr == Lower(t.from_address)
        to_addr == Lower(t.to_address)
        amount == t.value_formatted
        date == DateOf(tx)
        usd_price == get_eth_usd_price(date)
        usd == Round2(Val(usd_price) * amount, 1000)
        lab == label_defunding_sink(to_addr, oracle[Len(acc.calls) + 1])
    IN  IF defunding_not_outbound(from_addr, to_addr, target_wallet)
        THEN defunding_parse_eth_from(tx, target_wallet, k + 1, oracle, acc)
        ELSE IF eth_is_dust(amount)
        THEN defunding_parse_eth_from(tx, target_wallet, k + 1, oracle, acc)
        ELSE IF IsNone(usd_price)
        THEN defunding_parse_eth_from(tx, target_wallet, k + 1, oracle, acc)
        ELSE defunding_parse_eth_from(tx, target_wallet, k + 1, oracle,
                [results |-> Append(acc.results,
                    [hash |-> tx.hash, block |-> tx.block_number, timestamp |-> date,
                     token |-> "ETH", to |-> to_addr, amount |-> amount,
                     usd |-> usd, status |-> lab.status, reason |-> lab.reason]),
                 calls |-> acc.calls \o lab.calls])

\* defunding.parse_erc20(tx, target_wallet).
RECURSIVE defunding_parse_erc20_from(_, _, _, _, _)
defunding_parse_erc20_from(tx, target_wallet, k, oracle, acc) ==
    IF k > Len(tx.erc20_transfers) THEN acc
    ELSE
    LET t == tx.erc20_transfers[k]
        from_addr == Lower(t.from_address)
        to_addr == Lower(t.to_address)
        symbol == GetStr(t.token_symbol, "UNKNOWN")
        amount == t.value_formatted
        usd == defunding_erc20_usd(t, tx)
        lab == label_defunding_sink(to_addr, oracle[Len(acc.calls) + 1])
    IN  IF defunding_not_outbound(from_addr, to_addr, target_wallet)
        THEN defunding_parse_erc20_from(tx, target_wallet, k + 1, oracle, acc)
        ELSE IF erc20_is_skipped(amount, symbol)
        THEN defunding_parse_erc20_from(tx, target_wallet, k + 1, oracle, acc)
        ELSE defunding_parse_erc20_from(tx, target_wallet, k + 1, oracle,
                [results |-> Append(acc.results,
                    [hash |-> tx.hash, block |-> tx.block_number, timestamp |-> DateOf(tx),
                     token |-> symbol, to |-> to_addr, amount |-> amount,
                     usd |-> Round2(usd, 1), status |-> lab.status, reason |-> lab.reason]),
                 calls |-> acc.calls \o lab.calls])

\* The accumulator a parse starts with: results = [] and no check made yet.
NoResults(calls) == [results |-> << >>, calls |-> calls]

funding_parse_eth(tx, oracle, calls) == funding_parse_eth_from(tx, 1, oracle, NoResults(calls))

funding_parse_erc20(tx, oracle, calls) == funding_parse_erc20_from(tx, 1, oracle, NoResults(calls))

defunding_parse_eth(tx, target_wallet, oracle, calls) ==
    defunding_parse_eth_from(tx, target_wallet, 1, oracle, NoResults(calls))

defunding_parse_erc20(tx, target_wallet, oracle, calls) ==
    defunding_parse_erc20_from(tx, target_wallet, 1, oracle, NoResults(calls))

(***************************************************************************)
(* The older extractor, mvp/funding.py: no classification, a block order.  *)
(***************************************************************************)
\* funding.parse_erc20_funding: `if amount < 1 or not symbol or symbol == "UNKNOWN": continue`.
erc20_funding_is_skipped(amount, symbol) ==
    amount < Erc20Floor \/ ~TruthyStr(symbol) \/ symbol = "UNKNOWN"

\* funding.parse_eth_funding: the loop body for native_transfers[k], k onwards.
RECURSIVE parse_eth_funding_from(_, _, _)
parse_eth_funding_from(tx, k, acc) ==
    IF k > Len(tx.native_transfers) THEN acc
    ELSE
    LET t == tx.native_transfers[k]
        from_addr == Lower(t.from_address)
        to_addr == Lower(t.to_address)
        amount == t.value_formatted
        date == DateOf(tx)
        price == get_eth_usd_price(date)
    IN  IF funding_not_inbound(to_addr, from_addr)
        THEN parse_eth_funding_from(tx, k + 1, acc)
        ELSE IF eth_is_dust(amount)
        THEN parse_eth_funding_from(tx, k + 1, acc)
        ELSE IF ~Truthy(price)
        THEN parse_eth_funding_from(tx, k + 1, acc)
        ELSE parse_eth_funding_from(tx, k + 1,
                Append(acc, [hash |-> tx.hash, block |-> tx.block_number, timestamp |-> date,
                             token |-> "ETH", from |-> from_addr, amount |-> amount,
                             usd |-> Round2(Val(price) * amount, 1000)]))

parse_eth_funding(tx) == parse_eth_funding_from(tx, 1, << >>)

\* funding.parse_erc20_funding: the loop body for erc20_transfers[k], k onwards.
RECURSIVE parse_erc20_funding_from(_, _, _)
parse_erc20_funding_from(tx, k, acc) ==
    IF k > Len(tx.erc20_transfers) THEN acc
    ELSE
    LET t == tx.erc20_transfers[k]
        from_addr == Lower(t.from_address)
        to_addr == Lower(t.to_address)
        symbol == GetStr(t.token_symbol, "UNKNOWN")
        amount == t.value_formatted
    IN  IF funding_not_inbound(to_addr, from_addr)
        THEN parse_erc20_funding_from(tx, k + 1, acc)
        ELSE IF erc20_funding_is_skipped(amount, symbol)
        THEN parse_erc20_funding_from(tx, k + 1, acc)
        ELSE IF IsNone(tx.value) \/ funding_erc20_usd_rejected(Val(tx.value))
        THEN parse_erc20_funding_from(tx, k + 1, acc)
        ELSE parse_erc20_funding_from(tx, k + 1,
                Append(acc, [hash |-> tx.hash, block |-> tx.block_number,
                             timestamp |-> DateOf(tx), token |-> symbol, from |-> from_addr,
                             amount |-> amount, usd |-> Round2(Val(tx.value), 1)]))

parse_erc20_funding(tx) == parse_erc20_funding_from(tx, 1, << >>)

\* The place of a new event in a list in block order: behind every event
\* whose block is not greater.
RECURSIVE InsertByBlock(_, _)
InsertByBlock(e, events) ==
    IF events = << >> THEN << e >>
    ELSE IF Head(events).block <= e.block
         THEN << Head(events) >> \o InsertByBlock(e, Tail(events))
         ELSE << e >> \o events

\* A build that saves the events in the order of the history.
sorted_not_at_all(events) == events

\* sorted(funding_events, key=lambda x: x["block"]): ascending and stable.
RECURSIVE sorted_by_block(_)
sorted_by_block(events) ==
    IF events = << >> THEN << >>
    ELSE InsertByBlock(events[Len(events)], sorted_by_block(SubSeq(events, 1, Len(events) - 1)))

\* funding.build_wallet_funding: `for tx in txs`, from record k onwards.
RECURSIVE funding_events_from(_, _, _)
funding_events_from(txs, k, acc) ==
    IF k > Len(txs) THEN acc
    ELSE funding_events_from(txs, k + 1,
                             acc \o parse_eth_funding(txs[k]) \o parse_erc20_funding(txs[k]))

(***************************************************************************)
(* Aggregation                                                             *)
(***************************************************************************)
\* sum(e.get("usd", 0.0) for e in events if e.get("status") == "accepted")
RECURSIVE sum_accepted_usd(_)
sum_accepted_usd(events) ==
    IF events = << >> THEN 0
    ELSE (IF Head(events).status = "accepted" THEN Head(events).usd ELSE 0)
         + sum_accepted_usd(Tail(events))

\* A total over the events of every status.
RECURSIVE sum_every_usd(_)
sum_every_usd(events) ==
    IF events = << >> THEN 0
    ELSE Head(events).usd + sum_every_usd(Tail(events))

sum_defunded_usd_every_status(events) == Round2(sum_every_usd(events), 1)

\* defunding._sum_defunded_usd(events)
sum_defunded_usd(events) == Round2(sum_accepted_usd(events), 1)

\* The funded total of funding_v1.get_funding, which app.py reads as
\* funding["funded_usd"]: the counterpart of _sum_defunded_usd.
sum_funded_usd(events) == Round2(sum_accepted_usd(events), 1)

(***************************************************************************)
(* pnl.py                                                                  *)
(***************************************************************************)
\* The content of a JSON file as pnl.py sees it.  kind is "missing" (no such
\* file), "malformed" (not JSON), "list", "dict" or "other" (any other JSON
\* value); total and plain are the two keys a dict is asked for, in order.
FileMissing == [kind |-> "missing", events |-> << >>, total |-> None, plain |-> None]

FileMalformed == [kind |-> "malformed", events |-> << >>, total |-> None, plain |-> None]

FileOther == [kind |-> "other", events |-> << >>, total |-> None, plain |-> None]

FileList(events) == [kind |-> "list", events |-> events, total |-> None, plain |-> None]

FileDict(total, plain) == [kind |-> "dict", events |-> << >>, total |-> total, plain |-> plain]

\* load_json_file raises (FileNotFoundError, ValueError) for these.
load_json_file_raises(file) == file.kind \in {"missing", "malformed"}

\* pnl.py: sum(e.get("usd", 0.0) for e in obj if e.get("status") == "accepted")
RECURSIVE pnl_sum_accepted(_)
pnl_sum_accepted(obj) ==
    IF obj = << >> THEN 0
    ELSE (IF Head(obj).status = "accepted" THEN Head(obj).usd ELSE 0)
         + pnl_sum_accepted(Tail(obj))

\* _extract_total_funded_usd(obj); None when it raises ValueError.
extract_total_funded_usd(obj) ==
    IF obj.kind = "list" THEN Some(pnl_sum_accepted(obj.events))
    ELSE IF obj.kind = "dict" THEN Some(Val(PyOr(PyOr(obj.total, obj.plain), Some(0))))
    ELSE None

\* _extract_total_defunded_usd(obj); None when it raises ValueError.
extract_total_defunded_usd(obj) ==
    IF obj.kind = "list" THEN Some(pnl_sum_accepted(obj.events))
    ELSE IF obj.kind = "dict" THEN Some(Val(PyOr(PyOr(obj.total, obj.plain), Some(0))))
    ELSE None

\* sum(t.get("usd_value", 0.0) for t in obj)
RECURSIVE pnl_sum_tokens(_)
pnl_sum_tokens(obj) ==
    IF obj = << >> THEN 0 ELSE Head(obj).usd_value + pnl_sum_tokens(Tail(obj))

\* _extract_current_usd_value(obj): total is total_usd_value, plain is
\* current_value_usd, events the token list; None when it raises ValueError.
extract_current_usd_value(obj) ==
    LET val == IF IsNone(obj.total) THEN obj.plain ELSE obj.total
    IN  IF obj.kind = "dict" /\ ~IsNone(val) THEN val
        ELSE IF obj.kind = "list" THEN Some(pnl_sum_tokens(obj.events))
        ELSE None

\* round((net_pnl / net_funded) * 100.0, 2) for net_funded > 0, in hundredths
\* of a percent: the exact quotient net_pnl * 10000 / net_funded, rounded half
\* to even, taken in two steps of 100 so that no product leaves 32 bits.
roi_rounded(net_pnl, net_funded) ==
    LET a == net_pnl * 100
        q1 == a \div net_funded
        r1 == a % net_funded
    IN  q1 * 100 + RoundDiv(r1 * 100, net_funded)

\* The branch of compute_pnl: `if net_funded > 0`.
roi_is_defined(net_funded) == net_funded > 0

\* A compute_pnl that takes the ROI from the figures already rounded to cents.
compute_pnl_roi_of_rounded(funded_usd, defunded_usd, current_value_usd) ==
    LET net_funded == funded_usd - defunded_usd
        net_pnl == current_value_usd - net_funded
        nf == Round2(net_funded, 1)
        np == Round2(net_pnl, 1)
    IN  [funded_usd |-> Round2(funded_usd, 1),
         defunded_usd |-> Round2(defunded_usd, 1),
         net_funded_usd |-> nf,
         current_value_usd |-> Round2(current_value_usd, 1),
         net_pnl_usd |-> np,
         roi_pct |-> IF nf > 0 THEN roi_rounded(np, nf) ELSE 0]

\* A compute_pnl that clamps only a net basis of exactly zero.
compute_pnl_clamps_zero_only(funded_usd, defunded_usd, current_value_usd) ==
    LET net_funded == funded_usd - defunded_usd
        net_pnl == current_value_usd - net_funded
    IN  [funded_usd |-> Round2(funded_usd, 1),
         defunded_usd |-> Round2(defunded_usd, 1),
         net_funded_usd |-> Round2(net_funded, 1),
         current_value_usd |-> Round2(current_value_usd, 1),
         net_pnl_usd |-> Round2(net_pnl, 1),
         roi_pct |-> IF net_funded > 0 THEN roi_rounded(net_pnl, net_funded)
                     ELSE IF net_funded < 0 THEN 0 - roi_rounded(net_pnl, 0 - net_funded)
                     ELSE 0]

\* A compute_pnl that keeps a running figure between calls: the funded
\* amount of the call before is added to this call's.
compute_pnl_with_carry(funded_usd, defunded_usd, current_value_usd) ==
    LET funded == funded_usd
                    + (IF pnl_calls = << >> THEN 0
                       ELSE pnl_calls[Len(pnl_calls)].result.funded_usd)
        net_funded == funded - defunded_usd
        net_pnl == current_value_usd - net_funded
    IN  [funded_usd |-> Round2(funded, 1),
         defunded_usd |-> Round2(defunded_usd, 1),
         net_funded_usd |-> Round2(net_funded, 1),
         current_value_usd |-> Round2(current_value_usd, 1),
         net_pnl_usd |-> Round2(net_pnl, 1),
         roi_pct |-> IF net_funded > 0 THEN roi_rounded(net_pnl, net_funded) ELSE 0]

\* compute_pnl(funded_usd, defunded_usd, current_value_usd), on numbers
\* (float(x or 0.0) of a number is that number).
compute_pnl(funded_usd, defunded_usd, current_value_usd) ==
    LET funded == funded_usd
        defunded == defunded_usd
        current == current_value_usd
        net_funded == funded - defunded
        net_pnl == current - net_funded
    IN  [funded_usd |-> Round2(funded, 1),
         defunded_usd |-> Round2(defunded, 1),
         net_funded_usd |-> Round2(net_funded, 1),
         current_value_usd |-> Round2(current, 1),
         net_pnl_usd |-> Round2(net_pnl, 1),
         roi_pct |-> IF roi_is_defined(net_funded) THEN roi_rounded(net_pnl, net_funded) ELSE 0]

\* The files pnl.py can find in data/.
MaxFileEvents == 2

Statuses == {"accepted", "rejected", "eoa"}

FileEvents == { [usd |-> u, status |-> st] : u \in {10005, 100000, 50000}, st \in Statuses }

RECURSIVE SeqsUpTo(_, _)
SeqsUpTo(S, n) ==
    IF n = 0 THEN { << >> }
    ELSE LET shorter == SeqsUpTo(S, n - 1)
         IN  shorter \cup { Append(q, x) : q \in { r \in shorter : Len(r) = n - 1 }, x \in S }

FundingFiles ==
    { FileList(evs) : evs \in SeqsUpTo(FileEvents, MaxFileEvents) }
    \cup { FileDict(Some(v), None) : v \in {0, 1004, 1005, 100000, 1000000} }
    \cup { FileDict(None, Some(1000000)), FileDict(None, None), FileDict(Some(0), Some(100000)),
           FileMissing, FileMalformed, FileOther }

DefundingFiles ==
    { FileList(evs) : evs \in SeqsUpTo(FileEvents, 1) }
    \cup { FileDict(Some(v), None) : v \in {0, 6, 1005, 100000, 150000} }
    \cup { FileDict(None, Some(150000)), FileMissing, FileMalformed, FileOther }

PortfolioFiles ==
    { FileDict(Some(v), None) : v \in {0, 2000, 3336, 10000, 1500000} }
    \cup { FileDict(None, Some(10000)), FileDict(None, None), FileMissing,
           FileList(<< [usd_value |-> 2000], [usd_value |-> 1335] >>) }

(***************************************************************************)
(* The history source: the raw records a wallet's history can hold         *)
(***************************************************************************)
\* The most records one history holds in this model.
MaxTxs == 2

\* `len(all_txs) >= 1000` of fetch_transactions.
SafetyCap == 1000

NativeT(f, t, v) == [from_address |-> f, to_address |-> t, value_formatted |-> v]

Erc20T(f, t, sym, v, u1, u2) ==
    [from_address |-> f, to_address |-> t, token_symbol |-> sym, value_formatted |-> v,
     usd_value |-> u1, usdValue |-> u2]

\* A raw record without its hash and block number.
Shape(date, value, natives, erc20s) ==
    [block_timestamp |-> [date |-> date, time |-> "T12:00:00.000Z"], value |-> value,
     native_transfers |-> natives, erc20_transfers |-> erc20s]

KnownDate == "2024-01-01"

UnknownDate == "2024-01-02"

\* Sender / receiver pairs of a sub-transfer.  0xt is the address the caller
\* analyses when it is not WALLET, 0xw is WALLET, 0xs a registered funding
\* source, 0xK a registered sink as the API spells it (mixed case), 0xx an
\* address in no registry.
AllPairs ==
    { <<"0xs", "0xt">>, <<"0xt", "0xK">>, <<"0xt", "0xx">>, <<"0xt", "0xs">>,
      <<"0xK", "0xw">>, <<"0xt", "0xt">>, <<"0xw", "0xw">>, <<"0xt", "0xw">>,
      <<"0xw", "0xt">>, <<"0xs", "0xw">>, <<"0xx", "0xw">>, <<"0xx", "0xs">> }

\* One inbound and one outbound pair whose counterparty is registered.
RegistryPairs == { <<"0xs", "0xw">>, <<"0xt", "0xK">> }

Symbols == {Absent, Null, "", "UNKNOWN", "USDC"}

\* (usd_value, usdValue, the record's value) of an ERC-20 sub-transfer.
UsdTriples ==
    { <<None, None, None>>, <<None, None, Some(0)>>, <<None, None, Some(250505)>>,
      <<Some(0), None, Some(0)>>, <<Some(0), None, Some(250505)>>, <<None, Some(0), None>>,
      <<Some(-5000), None, Some(-5000)>> }

NativeShapes ==
    { Shape(KnownDate, Some(0), << NativeT(p[1], p[2], 1503) >>, << >>) : p \in AllPairs }
    \cup { Shape(KnownDate, Some(0), << NativeT(p[1], p[2], v) >>, << >>) :
             p \in RegistryPairs, v \in {9, 10} }
    \cup { Shape(UnknownDate, Some(0), << NativeT(p[1], p[2], 1503) >>, << >>) :
             p \in RegistryPairs }

Erc20Shapes ==
    { Shape(KnownDate, Some(250505), << >>,
            << Erc20T(p[1], p[2], sym, 1000, Some(12345), None) >>) :
        p \in RegistryPairs, sym \in Symbols }
    \cup { Shape(KnownDate, Some(250505), << >>,
                 << Erc20T(p[1], p[2], "USDC", 999, Some(12345), None) >>) :
             p \in RegistryPairs }
    \cup { Shape(KnownDate, u[3], << >>, << Erc20T(p[1], p[2], "USDC", 2500, u[1], u[2]) >>) :
             p \in RegistryPairs, u \in UsdTriples }
    \cup { Shape(KnownDate, Some(250505), << >>,
                 << Erc20T(a, a, "USDC", 2500, Some(12345), None) >>) : a \in {"0xt", "0xw"} }

MixedShapes ==
    { Shape(KnownDate, Some(250505),
            << NativeT("0xs", "0xw", 1503) >>,
            << Erc20T("0xx", "0xw", "USDC", 2500, None, None) >>),
      Shape(KnownDate, Some(0),
            << NativeT("0xt", "0xK", 1503), NativeT("0xt", "0xx", 25) >>, << >>),
      Shape(KnownDate, Some(0),
            << NativeT("0xx", "0xw", 25), NativeT("0xs", "0xw", 1503) >>, << >>) }

\* Transfers an extractor drops although their counterparty 0xx is in no
\* registry: dust, a date without a price, an unresolved symbol, less than
\* one token, a record without a usable value.
DroppedShapes ==
    { Shape(KnownDate, Some(0), << NativeT("0xx", "0xw", 9) >>, << >>),
      Shape(UnknownDate, Some(0), << NativeT("0xt", "0xx", 1503) >>, << >>),
      Shape(KnownDate, Some(250505), << >>,
            << Erc20T("0xt", "0xx", "UNKNOWN", 2500, Some(12345), None) >>),
      Shape(KnownDate, Some(0), << >>,
            << Erc20T("0xx", "0xw", "USDC", 2500, None, None) >>) }

Shapes == NativeShapes \cup Erc20Shapes \cup MixedShapes \cup DroppedShapes

\* The n-th record of a history: its shape plus hash and block_number.
RawTx(shape, n) ==
    [hash |-> n, block_number |-> 19000000 - n, block_timestamp |-> shape.block_timestamp,
     value |-> shape.value, native_transfers |-> shape.native_transfers,
     erc20_transfers |-> shape.erc20_transfers]

\* The addresses a caller asks to analyse, as typed (checksum case).
Addresses == {"0xT", "0xW"}

(***************************************************************************)
(* The price lookups with a remote source: mvp/price_cache.py,             *)
(* archive/walletglass_core/pricing/pricing_engine.py, utils/price_cache.py *)
(***************************************************************************)
\* token.lower() / symbol.upper() on the tokens of the model.
TokenLower(t) == IF t = "ETH" THEN "eth" ELSE t

SymbolUpper(t) == IF t = "eth" THEN "ETH" ELSE t

PriceTokens == {"ETH", "eth"}

\* UNIX timestamps: noon of 2024-01-01 and of 2024-01-02 (UTC).
PriceTimestamps == {1704110400, 1704196800}

\* strftime("%Y-%m-%d") of utcfromtimestamp(timestamp) / timestamp_iso.split("T")[0].
DateOfTimestamp(ts) == IF ts = 1704110400 THEN KnownDate ELSE UnknownDate

PriceDates == {KnownDate, UnknownDate}

\* Keys of _price_cache of mvp/price_cache.py: (token.lower(), timestamp).
PriceKeys == { <<TokenLower(t), ts>> : t \in PriceTokens, ts \in PriceTimestamps }

\* Keys of the cache of utils/price_cache.py: f"{symbol}-{date_str}".
UtilKeys == { <<SymbolUpper(t), d>> : t \in PriceTokens, d \in PriceDates }

\* An empty dict over the keys K.
NoPrices(K) == [k \in K |-> None]

\* What a remote price source comes back with: the request raises, or has a
\* status, a body that parses or not, and the rows of its result, each with
\* a price or without one; has_rows is whether the body has the rows' key.
PriceResp(raises, status, json_ok, has_rows, rows) ==
    [raises |-> raises, status_code |-> status, json_ok |-> json_ok,
     has_rows |-> has_rows, rows |-> rows]

RemoteNetworkError == PriceResp(TRUE, 0, FALSE, FALSE, << >>)

RemoteHttpError == PriceResp(FALSE, 500, TRUE, FALSE, << >>)

RemoteNotJson == PriceResp(FALSE, 200, FALSE, FALSE, << >>)

RemoteNoRowsKey == PriceResp(FALSE, 200, TRUE, FALSE, << >>)

RemoteEmptyRows == PriceResp(FALSE, 200, TRUE, TRUE, << >>)

RemoteRowWithoutPrice == PriceResp(FALSE, 200, TRUE, TRUE, << None >>)

RemotePrice(p) == PriceResp(FALSE, 200, TRUE, TRUE, << Some(p) >>)

\* The remote answers of the model; prices in mills, one with half a cent.
RemotePrices == {2000005, 2250000}

RemoteResponses ==
    { RemoteNetworkError, RemoteHttpError, RemoteNotJson, RemoteNoRowsKey,
      RemoteEmptyRows, RemoteRowWithoutPrice }
    \cup { RemotePrice(p) : p \in RemotePrices }

\* STATIC_PRICE_CACHE of pricing_engine.py, loaded from eth_prices.json.
STATIC_PRICE_CACHE == [d \in {KnownDate} |-> 185370]

\* The outcome of a lookup: what is returned (None is Python's None), the
\* cache after it, and whether the remote source was called.
LookupOutcome(result, cache, remote) == [result |-> result, cache |-> cache, remote |-> remote]

\* mvp/price_cache.get_usd_price(token, timestamp), given _price_cache and what
\* the request comes back with if it is made.
get_usd_price(token, timestamp, cache, res) ==
    LET key == <<TokenLower(token), timestamp>>
    IN  IF ~IsNone(cache[key]) THEN LookupOutcome(cache[key], cache, FALSE)
        ELSE IF res.raises \/ res.status_code # 200 \/ ~res.json_ok
        THEN LookupOutcome(None, cache, TRUE)
        ELSE IF res.has_rows /\ res.rows = << >> THEN LookupOutcome(None, cache, TRUE)
        ELSE LET price == IF res.has_rows THEN res.rows[1] ELSE None
             IN  IF Truthy(price)
                 THEN LookupOutcome(price, [cache EXCEPT ![key] = price], TRUE)
                 ELSE LookupOutcome(price, cache, TRUE)

\* Decimal(str(close_price)).quantize(Decimal("0.01")): to cents, half to even.
Quantize2(p) == Round2(p, 1)

\* pricing_engine.get_price_at_time(timestamp), given _price_cache and what
\* yfinance comes back with if it is asked: a failed download or one without
\* rows is an exception or an empty frame.
get_price_at_time(timestamp, cache, res) ==
    LET date_str == DateOfTimestamp(timestamp)
    IN  IF ~IsNone(cache[date_str]) THEN LookupOutcome(cache[date_str], cache, FALSE)
        ELSE IF date_str \in DOMAIN STATIC_PRICE_CACHE
        THEN LookupOutcome(Some(STATIC_PRICE_CACHE[date_str]),
                           [cache EXCEPT ![date_str] = Some(STATIC_PRICE_CACHE[date_str])],
                           FALSE)
        ELSE IF res.raises \/ res.status_code # 200 \/ ~res.json_ok \/ ~res.has_rows
                  \/ res.rows = << >>
        THEN LookupOutcome(Some(0), cache, TRUE)
        ELSE IF IsNone(res.rows[1]) THEN LookupOutcome(Some(0), cache, TRUE)
        ELSE LookupOutcome(Some(Quantize2(Val(res.rows[1]))),
                           [cache EXCEPT ![date_str] = Some(Quantize2(Val(res.rows[1])))],
                           TRUE)

\* utils/price_cache.get_price_usd(symbol, contract_address, timestamp_iso, cache)
\* for a symbol and a timestamp that are not empty.
get_price_usd(symbol, timestamp, cache, res) ==
    LET cache_key == <<SymbolUpper(symbol), DateOfTimestamp(timestamp)>>
    IN  IF ~IsNone(cache[cache_key]) THEN LookupOutcome(cache[cache_key], cache, FALSE)
        ELSE IF res.raises THEN LookupOutcome(Some(0), cache, TRUE)
        ELSE IF res.status_code # 200 THEN LookupOutcome(Some(0), cache, TRUE)
        ELSE IF ~res.json_ok THEN LookupOutcome(Some(0), cache, TRUE)
        ELSE IF res.has_rows /\ res.rows # << >> /\ Truthy(res.rows[1])
        THEN LookupOutcome(res.rows[1], [cache EXCEPT ![cache_key] = res.rows[1]], TRUE)
        ELSE LookupOutcome(Some(0), cache, TRUE)

\* The requests a remote price source can get: Alchemy is asked with the
\* token as the caller spelled it and the time, yfinance with "ETH-USD" and
\* the date.
RemoteRequests ==
    { <<t, ts>> : t \in PriceTokens, ts \in PriceTimestamps }
    \cup { <<"ETH-USD", d>> : d \in PriceDates }

\* What a source that answers a request the same way every time can answer.
SourceAnswers == { RemoteEmptyRows } \cup { RemotePrice(p) : p \in RemotePrices }

(***************************************************************************)
(* The current portfolio: mvp/balances_moralis.py.  USD values in mills,   *)
(* balances in thousandths, prices in millionths of a dollar, shares of    *)
(* the portfolio in ten-thousandths of a percent.                          *)
(***************************************************************************)
\* A token item of the balances API, with the fields the module reads.
\* possible_spam is absent, a boolean ("py:True", "py:False") or a string.
TokenItem(symbol, denylisted, possible_spam, usd_value, usdValue, quote, balance_formatted, usd_price, native_token) ==
    [symbol |-> symbol, denylisted |-> denylisted, possible_spam |-> possible_spam,
     usd_value |-> usd_value, usdValue |-> usdValue, quote |-> quote,
     balance_formatted |-> balance_formatted, usd_price |-> usd_price,
     native_token |-> native_token]

\* spam_flag.strip().lower() on the strings of the model.
StripLower(flag) == IF flag \in {"true", " True ", "TRUE"} THEN "true" ELSE flag

\* is_spam: the address is on the denylist, or possible_spam is True or a
\* string that reads "true".
is_spam(token) ==
    \/ token.denylisted
    \/ token.possible_spam = "py:True"
    \/ (token.possible_spam \notin {Absent, "py:True", "py:False"}
        /\ StripLower(token.possible_spam) = "true")

\* as_float(x, 0.0) on a value that is None or a number.
as_float(x) == IF IsNone(x) THEN 0 ELSE Val(x)

\* normalize_item: usd_value, else usdValue, else quote.
item_usd_value(token) ==
    as_float(IF ~IsNone(token.usd_value) THEN token.usd_value
             ELSE IF ~IsNone(token.usdValue) THEN token.usdValue ELSE token.quote)

\* normalize_item: `if usd_value < 0.01: return None`.
item_is_dust(usd_value) == usd_value < 10

\* normalize_item: None (no entry) for spam and for dust, else the entry.
normalize_item(token) ==
    LET usd_value == item_usd_value(token)
        balance == as_float(token.balance_formatted)
        given_price == as_float(token.usd_price)
        usd_price == IF given_price = 0 /\ balance > 0
                     THEN RoundDiv(usd_value * 1000000, balance) ELSE given_price
    IN  IF is_spam(token) THEN None
        ELSE IF item_is_dust(usd_value) THEN None
        ELSE Some([contract_ticker_symbol |-> token.symbol, balance |-> balance,
                   usd_price |-> usd_price, quote |-> Round2(usd_value, 1)])

\* tokens_include_native
tokens_include_native(items) == \E k \in 1..Len(items) : items[k].native_token

\* build_portfolio: `for tok in items`, from item k onwards.
RECURSIVE normalized_from(_, _, _)
normalized_from(items, k, acc) ==
    IF k > Len(items) THEN acc
    ELSE LET norm == normalize_item(items[k])
         IN  normalized_from(items, k + 1, IF IsNone(norm) THEN acc ELSE Append(acc, Val(norm)))

\* The place of a token in a list in descending order of quote: behind
\* every token whose quote is not smaller.
RECURSIVE InsertByQuote(_, _)
InsertByQuote(t, tokens) ==
    IF tokens = << >> THEN << t >>
    ELSE IF Head(tokens).quote >= t.quote
         THEN << Head(tokens) >> \o InsertByQuote(t, Tail(tokens))
         ELSE << t >> \o tokens

\* tokens.sort(key=lambda x: x["quote"], reverse=True)
RECURSIVE sort_by_quote(_)
sort_by_quote(tokens) ==
    IF tokens = << >> THEN << >>
    ELSE InsertByQuote(tokens[Len(tokens)], sort_by_quote(SubSeq(tokens, 1, Len(tokens) - 1)))

RECURSIVE sum_quotes(_)
sum_quotes(tokens) ==
    IF tokens = << >> THEN 0 ELSE Head(tokens).quote + sum_quotes(Tail(tokens))

\* build_portfolio: `denom = sum(t["quote"] for t in tokens) or 1.0`.
portfolio_denom(tokens) == IF sum_quotes(tokens) = 0 THEN 1000 ELSE sum_quotes(tokens)

\* build_portfolio(address), given the items fetched and what the native
\* top-up comes back with (None when it fails).
build_portfolio(fetched, native) ==
    LET items == IF ~tokens_include_native(fetched) /\ ~IsNone(native)
                 THEN Append(fetched, Val(native)) ELSE fetched
        tokens == sort_by_quote(normalized_from(items, 1, << >>))
        denom == portfolio_denom(tokens)
    IN  [total_usd_value |-> Round2(denom, 1),
         tokens |-> [k \in 1..Len(tokens) |->
                       [contract_ticker_symbol |-> tokens[k].contract_ticker_symbol,
                        balance |-> tokens[k].balance, usd_price |-> tokens[k].usd_price,
                        quote |-> tokens[k].quote,
                        portfolio_pct |-> RoundDiv(tokens[k].quote * 1000000, denom)]]]

\* get_portfolio: the keys of build_portfolio's result renamed for the app.
get_portfolio(fetched, native) ==
    LET raw == build_portfolio(fetched, native)
    IN  [current_value_usd |-> raw.total_usd_value,
         tokens |-> [k \in 1..Len(raw.tokens) |->
                       [symbol |-> raw.tokens[k].contract_ticker_symbol,
                        amount |-> raw.tokens[k].balance, usd_price |-> raw.tokens[k].usd_price,
                        usd |-> raw.tokens[k].quote,
                        portfolio_pct |-> raw.tokens[k].portfolio_pct]]]

\* The most items a balances endpoint returns in the model.
MaxItems == 2

\* The items of the model: a priced token, spam by flag, by a string flag
\* and by denylist, a value under usdValue and under quote, dust, the
\* floor of one cent, no value at all, and native ETH.
Items ==
    { TokenItem("USDC", FALSE, "py:False", Some(1500), None, None, Some(1500), Some(1000000), FALSE),
      TokenItem("SPAM", FALSE, "py:True", Some(1500), None, None, Some(1500), None, FALSE),
      TokenItem("SPAMS", FALSE, " True ", Some(1500), None, None, Some(1500), None, FALSE),
      TokenItem("DENY", TRUE, Absent, Some(1500), None, None, Some(1500), None, FALSE),
      TokenItem("DAI", FALSE, "false", None, Some(500), None, Some(250), None, FALSE),
      TokenItem("QUO", FALSE, Absent, None, None, Some(14), Some(2000), None, FALSE),
      TokenItem("DUST", FALSE, Absent, Some(9), None, None, Some(1000), None, FALSE),
      TokenItem("CENT", FALSE, Absent, Some(10), None, None, None, None, FALSE),
      TokenItem("NONE", FALSE, Absent, None, None, None, None, None, FALSE),
      TokenItem("ETH", FALSE, Absent, Some(1500), None, None, Some(1), Some(1500000000), TRUE) }

\* get_native_eth_if_missing: None when a request fails, else the native
\* item with usd_value = balance * price and no usd_price.
NativeTopUps ==
    { None,
      Some(TokenItem("ETH", FALSE, Absent, Some(0), None, None, Some(0), None, TRUE)),
      Some(TokenItem("ETH", FALSE, Absent, Some(1000), None, None, Some(500), None, TRUE)) }

(***************************************************************************)
(* The rate limit of app.py: one record per email in data/rate_limit.json. *)
(* Time is in minutes.                                                     *)
(***************************************************************************)
\* THROTTLE_MINUTES
THROTTLE_MINUTES == 60

\* The emails a session can hold after the email gate, as typed, and the
\* empty email enforce_rate_limit guards against.
Emails == {"a@x.io", "A@X.io", "b@x.io", ""}

\* _email_key: the hash of email.strip().lower(); the hash is one to one on
\* the emails of the model.
email_key(email) == IF email = "A@X.io" THEN "a@x.io" ELSE email

\* use_dev_mode: an email of `allowed`.
DevEmail == "twares@hotmail.ca"

EmailKeys == { email_key(e) : e \in (Emails \ {""}) \cup {DevEmail} }

\* The addresses asked for: two spellings of one address, and another.
RateAddresses == {"0xT", "0xt", "0xW"}

\* The times of the model: the start, a minute short of the window, the
\* window, and two windows.
Times == {0, THROTTLE_MINUTES - 1, THROTTLE_MINUTES, 2 * THROTTLE_MINUTES}

\* The file when it is missing or holds {}.
EmptyDb == [k \in EmailKeys |-> None]

\* _load_rate_db: the dict of the file, {} when reading or parsing raises.
load_rate_db(file, readable) == IF readable THEN file ELSE EmptyDb

\* _save_rate_db: the file after the call; an exception is swallowed and
\* leaves the file as it was.
save_rate_db(file, db, writable) == IF writable THEN db ELSE file

\* db.get(key, {"last_addr": None, "last_ts": None})
rate_record(db, key) ==
    IF IsNone(db[key]) THEN [last_addr |-> None, last_ts |-> None] ELSE Val(db[key])

\* (address or "").lower() != (rec.get("last_addr") or "").lower()
rate_is_new(address, rec) ==
    Lower(address) # (IF IsNone(rec.last_addr) THEN "" ELSE Lower(Val(rec.last_addr)))

\* `delta < timedelta(minutes=THROTTLE_MINUTES)`
rate_in_window(now, last_ts) == now - last_ts < THROTTLE_MINUTES

\* What enforce_rate_limit decides: ok, retry_at (the minute the window
\* ends, None when ok), and the dict it saves (None when it saves nothing).
RateDecision(ok, retry_at, write) == [ok |-> ok, retry_at |-> retry_at, write |-> write]

\* enforce_rate_limit(email, address) on the dict it loaded, at time now.
enforce_rate_limit(email, address, db, now) ==
    LET key == email_key(email)
        rec == rate_record(db, key)
        updated == [db EXCEPT ![key] = Some([last_addr |-> Some(address),
                                             last_ts |-> Some(now)])]
    IN  IF email = "" THEN RateDecision(TRUE, None, None)
        ELSE IF ~rate_is_new(address, rec) THEN RateDecision(TRUE, None, None)
        ELSE IF IsNone(rec.last_ts) THEN RateDecision(TRUE, None, Some(updated))
        ELSE IF rate_in_window(now, Val(rec.last_ts))
        THEN RateDecision(FALSE, Some(Val(rec.last_ts) + THROTTLE_MINUTES), None)
        ELSE RateDecision(TRUE, None, Some(updated))

\* The browser sessions that run the app at the same time.
Sessions == {1, 2}

\* The emails the sessions are signed in with.
SessionEmails == {"a@x.io", "b@x.io"}

\* The grants after which no further call is followed.
MaxGrants == 2

\* A session that is not inside enforce_rate_limit.
IdleSession ==
    [pc |-> "idle", email |-> "", address |-> "", db |-> EmptyDb, now |-> 0]

(***************************************************************************)
(* The script of app.py, as one session runs it from top to bottom.        *)
(***************************************************************************)
DEMO_ADDR == "0xD"

\* What the user can leave in the address box: two addresses, a string that
\* is not an address, nothing.
AppAddresses == {"0xT", "0xW", "0xnothex", ""}

\* ADDR_RE.match(addr): 0x and 40 hex characters.
ADDR_RE_match(addr) == addr \in {"0xT", "0xt", "0xW", "0xw", DEMO_ADDR}

\* What the user can type in the email form: an email, a developer's email,
\* a string EMAIL_RE rejects, a disposable address.
AppEmails == {"a@x.io", DevEmail, "a@x", "a@mailinator.com"}

EMAIL_RE_match(email) == email \in {"a@x.io", DevEmail, "a@mailinator.com"}

\* _is_disposable
is_disposable(email) == email = "a@mailinator.com"

\* email_gate(): whether the gate is passed, and the two session values.
email_gate(state, submit, email, consent) ==
    IF state.email_ok THEN [passed |-> TRUE, email_ok |-> TRUE, user_email |-> state.user_email]
    ELSE IF submit /\ EMAIL_RE_match(email) /\ ~is_disposable(email) /\ consent
    THEN [passed |-> TRUE, email_ok |-> TRUE, user_email |-> email]
    ELSE [passed |-> FALSE, email_ok |-> FALSE, user_email |-> state.user_email]

\* use_dev_mode(): the toggle, shown to the emails of `allowed` only.
use_dev_mode(user_email, toggle) == user_email = DevEmail /\ toggle

\* A script that goes on to the pipeline whatever the throttle answered.
after_throttle_ignored(ok) == "funding"

\* Where the script goes after `ok, retry_at = enforce_rate_limit(...)`.
after_throttle(ok) == IF ok THEN "funding" ELSE "stopped"

\* The session before its first run.
FreshSession ==
    [pc |-> "idle", email_ok |-> FALSE, user_email |-> "", active_address |-> None,
     addr |-> "", dev |-> FALSE, steps |-> << >>]

(***************************************************************************)
(* State                                                                   *)
(***************************************************************************)
VARIABLES
    pc,               \* where the run is: idle, fetch, funding, defunding, done, failed
    address,          \* the address the caller asked to analyse
    all_txs,          \* fetch_transactions: the records fetched so far
    i,                \* the loop `for tx in txs`: index of the next record
    funding_events,   \* all_events of get_funding
    defunding_events, \* all_events of get_defunding
    checks,           \* the contract checks made so far: address and response
    funding,          \* what get_funding returned, None before
    defunding,        \* what get_defunding returned, None before
    files,            \* pnl.py: the three files of data/ as read, None before
    args,             \* pnl.py: the arguments compute_pnl was called with, None before
    pnl               \* pnl.py: data/wallet_pnl.json as saved, None before

run_vars == << address, all_txs, i, funding_events, defunding_events, checks, funding, defunding >>

pnl_vars == << files, args, pnl >>

\* The state of the library functions called on their own: the fetch loop's
\* cursor, the price caches, the direct calls of compute_pnl.
lib_vars == << fetch_cursor, price_cache, engine_cache, util_cache, lookup, pnl_calls >>

\* balances_moralis.py
portfolio_vars == << portfolio_raw, portfolio >>

\* app.py: the rate limit
rate_vars == << clock, rate_db, rate_call >>

\* app.py: the sessions of the app
app_vars == << sessions, grants, app, last_address_file >>

\* The state of the older modules and of the app around the pipeline.
ext_vars == << wallet_funding_file, remote_answers, portfolio_vars, rate_vars, app_vars >>

vars == << pc, run_vars, pnl_vars, lib_vars, ext_vars >>

\* get_defunding: target = address.lower()
target == Lower(address)

Init ==
    /\ pc = "idle"
    /\ address = ""
    /\ all_txs = << >>
    /\ i = 1
    /\ funding_events = << >>
    /\ defunding_events = << >>
    /\ checks = << >>
    /\ funding = None
    /\ defunding = None
    /\ files = None
    /\ args = None
    /\ pnl = None
    /\ fetch_cursor = ""
    /\ price_cache = NoPrices(PriceKeys)
    /\ engine_cache = NoPrices(PriceDates)
    /\ util_cache = NoPrices(UtilKeys)
    /\ lookup = None
    /\ pnl_calls = << >>
    /\ wallet_funding_file = None
    /\ remote_answers = [r \in RemoteRequests |-> None]
    /\ portfolio_raw = None
    /\ portfolio = None
    /\ clock = 0
    /\ rate_db = EmptyDb
    /\ rate_call = None
    /\ sessions = [s \in Sessions |-> IdleSession]
    /\ grants = {}
    /\ app = FreshSession
    /\ last_address_file = None

\* app.py: the caller submits an address; the analysis starts.
Analyse ==
    /\ pc = "idle"
    /\ \E a \in Addresses : address' = a
    /\ pc' = "fetch"
    /\ UNCHANGED << all_txs, i, funding_events, defunding_events, checks, funding, defunding, pnl_vars, lib_vars, ext_vars >>

\* fetch_transactions: one page of the history comes back with status 200;
\* the loop ends when the page carries no cursor or the cap is reached.
FetchPage ==
    /\ pc = "fetch"
    /\ \E page \in { << >> } \cup { << sh >> : sh \in Shapes }, cursor \in BOOLEAN :
         /\ Len(all_txs) + Len(page) <= MaxTxs
         /\ (Len(all_txs) + Len(page) = MaxTxs) => ~cursor
         /\ all_txs' = all_txs \o [k \in 1..Len(page) |-> RawTx(page[k], Len(all_txs) + k)]
         /\ pc' = IF ~cursor \/ Len(all_txs') >= SafetyCap THEN "funding" ELSE "fetch"
    /\ UNCHANGED << address, i, funding_events, defunding_events, checks, funding, defunding, pnl_vars, lib_vars, ext_vars >>

\* A failed fetch that keeps the records of the pages fetched before.
FetchFailsKeepingPages ==
    /\ pc = "fetch"
    /\ pc' = "failed"
    /\ UNCHANGED << address, all_txs, i, funding_events, defunding_events, checks, funding,
                    defunding, pnl_vars, lib_vars, ext_vars >>

\* fetch_transactions: a page comes back with another status; the exception
\* leaves get_funding / get_defunding and the records fetched so far are lost.
FetchFails ==
    /\ pc = "fetch"
    /\ pc' = "failed"
    /\ all_txs' = << >>
    /\ UNCHANGED << address, i, funding_events, defunding_events, checks, funding, defunding, pnl_vars, lib_vars, ext_vars >>

\* get_defunding fetches the history again: fetch_transactions(target) is its
\* first step, and a page of it can come back with a status other than 200.
\* The exception leaves get_defunding; app.py shows the error and stops.
DefundingFetchFails ==
    /\ pc = "defunding"
    /\ i = 1
    /\ defunding_events = << >>
    /\ pc' = "failed"
    /\ all_txs' = << >>
    /\ UNCHANGED << address, i, funding_events, defunding_events, checks, funding, defunding,
                    pnl_vars, lib_vars, ext_vars >>

\* The sub-transfers of a record: no more contract checks than these are made for it.
NumSubs(tx) == Len(tx.native_transfers) + Len(tx.erc20_transfers)

\* get_funding: one turn of `for tx in txs`: parse_eth(tx), then parse_erc20(tx).
ParseFundingTx ==
    /\ pc = "funding"
    /\ i <= Len(all_txs)
    /\ \E oracle \in [1..NumSubs(all_txs[i]) -> Responses] :
         LET tx == all_txs[i]
             eth == funding_parse_eth(tx, oracle, << >>)
             erc == funding_parse_erc20(tx, oracle, eth.calls)
         IN  /\ funding_events' = funding_events \o eth.results \o erc.results
             /\ checks' = checks \o erc.calls
    /\ i' = i + 1
    /\ UNCHANGED << pc, address, all_txs, defunding_events, funding, defunding, pnl_vars, lib_vars, ext_vars >>

\* get_funding returns; app.py goes on to get_defunding.
FinishFunding ==
    /\ pc = "funding"
    /\ i > Len(all_txs)
    /\ funding' = [funded_usd |-> sum_funded_usd(funding_events), events |-> funding_events]
    /\ pc' = "defunding"
    /\ i' = 1
    /\ UNCHANGED << address, all_txs, funding_events, defunding_events, checks, defunding, pnl_vars, lib_vars, ext_vars >>

\* get_defunding: one turn of `for tx in txs`.
ParseDefundingTx ==
    /\ pc = "defunding"
    /\ i <= Len(all_txs)
    /\ \E oracle \in [1..NumSubs(all_txs[i]) -> Responses] :
         LET tx == all_txs[i]
             eth == defunding_parse_eth(tx, target, oracle, << >>)
             erc == defunding_parse_erc20(tx, target, oracle, eth.calls)
         IN  /\ defunding_events' = defunding_events \o eth.results \o erc.results
             /\ checks' = checks \o erc.calls
    /\ i' = i + 1
    /\ UNCHANGED << pc, address, all_txs, funding_events, funding, defunding, pnl_vars, lib_vars, ext_vars >>

\* get_defunding returns {"defunded_usd": ..., "events": all_events}.
FinishDefunding ==
    /\ pc = "defunding"
    /\ i > Len(all_txs)
    /\ defunding' = [defunded_usd |-> sum_defunded_usd(defunding_events),
                     events |-> defunding_events]
    /\ pc' = "done"
    /\ UNCHANGED << address, all_txs, i, funding_events, defunding_events, checks, funding, pnl_vars, lib_vars, ext_vars >>

\* pnl.main(): load_and_compute_from_files reads the three files, adapts
\* their shapes and calls compute_pnl; the result is printed and saved.  Any
\* exception is caught, printed, and nothing is saved.
PnlMain ==
    /\ pc = "idle"
    /\ \E ff \in FundingFiles, df \in DefundingFiles, pf \in PortfolioFiles :
         LET funded == extract_total_funded_usd(ff)
             current == extract_current_usd_value(pf)
             defunded == IF df.kind = "missing" THEN Some(0) ELSE extract_total_defunded_usd(df)
             raised == \/ load_json_file_raises(ff)
                       \/ load_json_file_raises(pf)
                       \/ IsNone(funded)
                       \/ IsNone(current)
                       \/ df.kind = "malformed"
                       \/ IsNone(defunded)
         IN  /\ files' = [funding |-> ff, defunding |-> df, portfolio |-> pf]
             /\ IF raised
                THEN /\ pc' = "cli_error"
                     /\ args' = None
                     /\ pnl' = None
                ELSE /\ pc' = "cli_done"
                     /\ args' = [funded_usd |-> Val(funded), defunded_usd |-> Val(defunded),
                                 current_value_usd |-> Val(current)]
                     /\ pnl' = compute_pnl(Val(funded), Val(defunded), Val(current))
    /\ UNCHANGED << run_vars, lib_vars, ext_vars >>

\* `limit: 100` of the history request: the most records a page holds.
PageLimit == 100

\* The page sizes of the model: empty, one record, one short of full, full.
PageSizes == {0, 1, PageLimit - 1, PageLimit}

\* What data.get("cursor") can be: missing or null, empty, or a cursor.
Cursors == {Null, "", "c1", "c2"}

\* A record of the history that holds no transfer.
PlainTx(n) == RawTx(Shape(KnownDate, Some(0), << >>, << >>), n)

\* fetch_transactions at its real size: one turn of `while True` whose
\* request comes back with status 200, a page of records and
\* a cursor; `if not cursor or len(all_txs) >= 1000: break`, then return.
FetchTransactionsPage ==
    /\ pc = "fetch"
    /\ \E size \in PageSizes, c \in Cursors :
         /\ all_txs' = all_txs \o [k \in 1..size |-> PlainTx(Len(all_txs) + k)]
         /\ fetch_cursor' = c
         /\ pc' = IF ~TruthyStr(c) \/ Len(all_txs) + size >= SafetyCap
                  THEN "fetched" ELSE "fetch"
    /\ UNCHANGED << address, i, funding_events, defunding_events, checks, funding, defunding,
                    pnl_vars, price_cache, engine_cache, util_cache, lookup, pnl_calls, ext_vars >>

\* fetch_transactions: the request comes back with another status; the
\* exception leaves the function and all_txs, a local, is lost.
FetchTransactionsFails ==
    /\ pc = "fetch"
    /\ pc' = "failed"
    /\ all_txs' = << >>
    /\ UNCHANGED << address, i, funding_events, defunding_events, checks, funding, defunding,
                    pnl_vars, lib_vars, ext_vars >>

\* The most direct calls of compute_pnl in one behaviour.
MaxCalls == 3

\* The arguments of the direct calls: (funded, defunded, current) in mills.
CallArgs ==
    { <<1000000, 0, 1500000>>, <<100000, 150000, 10000>>, <<1004, 6, 3336>>, <<0, 0, 5000>> }

\* A call of compute_pnl, as app.py line 431 and tests make it; the state
\* keeps its arguments, its result and the price cache it ran next to.
ComputePnlCall ==
    /\ Len(pnl_calls) < MaxCalls
    /\ \E a \in CallArgs :
         pnl_calls' = Append(pnl_calls, [args |-> a, result |-> compute_pnl(a[1], a[2], a[3]),
                                         beside |-> engine_cache])
    /\ UNCHANGED << pc, run_vars, pnl_vars, fetch_cursor, price_cache, engine_cache,
                    util_cache, lookup, ext_vars >>

\* What the state keeps of a lookup: the function, its key, what the cache
\* held for the key before, whether the remote source was called and with
\* what answer, and what the call returned.
LookupRecord(fn, token, timestamp, before, res, out) ==
    Some([fn |-> fn, token |-> token, timestamp |-> timestamp, cached |-> before,
          remote |-> out.remote, response |-> IF out.remote THEN Some(res) ELSE None,
          result |-> out.result])

\* A call of mvp/price_cache.get_usd_price.
GetUsdPrice ==
    /\ pc = "idle"
    /\ \E token \in PriceTokens, ts \in PriceTimestamps, res \in RemoteResponses :
         LET out == get_usd_price(token, ts, price_cache, res)
         IN  /\ price_cache' = out.cache
             /\ lookup' = LookupRecord("get_usd_price", token, ts,
                                       price_cache[<<TokenLower(token), ts>>], res, out)
    /\ UNCHANGED << pc, run_vars, pnl_vars, fetch_cursor, engine_cache, util_cache, pnl_calls, ext_vars >>

\* A call of pricing_engine.get_price_at_time.
GetPriceAtTime ==
    /\ pc = "idle"
    /\ \E ts \in PriceTimestamps, res \in RemoteResponses :
         LET out == get_price_at_time(ts, engine_cache, res)
         IN  /\ engine_cache' = out.cache
             /\ lookup' = LookupRecord("get_price_at_time", "ETH", ts,
                                       engine_cache[DateOfTimestamp(ts)], res, out)
    /\ UNCHANGED << pc, run_vars, pnl_vars, fetch_cursor, price_cache, util_cache, pnl_calls, ext_vars >>

\* A call of utils/price_cache.get_price_usd with the caller's cache dict.
GetPriceUsd ==
    /\ pc = "idle"
    /\ \E symbol \in PriceTokens, ts \in PriceTimestamps, res \in RemoteResponses :
         LET out == get_price_usd(symbol, ts, util_cache, res)
         IN  /\ util_cache' = out.cache
             /\ lookup' = LookupRecord("get_price_usd", symbol, ts,
                                       util_cache[<<SymbolUpper(symbol), DateOfTimestamp(ts)>>],
                                       res, out)
    /\ UNCHANGED << pc, run_vars, pnl_vars, fetch_cursor, price_cache, engine_cache, pnl_calls, ext_vars >>

\* A source that answers a request as it answered it before.
AnswersAsBefore(req, res) ==
    IF IsNone(remote_answers[req]) THEN TRUE ELSE res = Val(remote_answers[req])

\* The answers so far, with the one to req if the lookup made the request.
AnswersAfter(req, res, out) ==
    IF out.remote THEN [remote_answers EXCEPT ![req] = Some(res)] ELSE remote_answers

\* A call of mvp/price_cache.get_usd_price against such a source.
ResolveUsdPrice ==
    /\ pc = "idle"
    /\ \E token \in PriceTokens, ts \in PriceTimestamps, res \in SourceAnswers :
         LET out == get_usd_price(token, ts, price_cache, res)
         IN  /\ AnswersAsBefore(<<token, ts>>, res)
             /\ price_cache' = out.cache
             /\ lookup' = LookupRecord("get_usd_price", token, ts,
                                       price_cache[<<TokenLower(token), ts>>], res, out)
             /\ remote_answers' = AnswersAfter(<<token, ts>>, res, out)
    /\ UNCHANGED << pc, run_vars, pnl_vars, fetch_cursor, engine_cache, util_cache, pnl_calls,
                    wallet_funding_file, portfolio_vars, rate_vars, app_vars >>

\* A call of pricing_engine.get_price_at_time against such a source.
ResolvePriceAtTime ==
    /\ pc = "idle"
    /\ \E ts \in PriceTimestamps, res \in SourceAnswers :
         LET out == get_price_at_time(ts, engine_cache, res)
             req == <<"ETH-USD", DateOfTimestamp(ts)>>
         IN  /\ AnswersAsBefore(req, res)
             /\ engine_cache' = out.cache
             /\ lookup' = LookupRecord("get_price_at_time", "ETH", ts,
                                       engine_cache[DateOfTimestamp(ts)], res, out)
             /\ remote_answers' = AnswersAfter(req, res, out)
    /\ UNCHANGED << pc, run_vars, pnl_vars, fetch_cursor, price_cache, util_cache, pnl_calls,
                    wallet_funding_file, portfolio_vars, rate_vars, app_vars >>

\* get_portfolio(address): the tokens endpoint answers with items, with
\* none, or fails, and then the erc20 endpoint answers or fails (the
\* exception leaves get_portfolio); the items fetched are saved as raw
\* payload, the native top-up is asked for if they hold no native item,
\* and the portfolio is built and returned.
GetPortfolio ==
    /\ pc = "idle"
    /\ \E first \in { None } \cup { Some(q) : q \in SeqsUpTo(Items, MaxItems) },
          second \in { None } \cup { Some(q) : q \in SeqsUpTo(Items, 1) },
          native \in NativeTopUps :
         IF ~IsNone(first) /\ Val(first) # << >>
         THEN /\ portfolio_raw' = first
              /\ portfolio' = Some(get_portfolio(Val(first), native))
              /\ pc' = "valued"
         ELSE IF ~IsNone(second)
         THEN /\ portfolio_raw' = second
              /\ portfolio' = Some(get_portfolio(Val(second), native))
              /\ pc' = "valued"
         ELSE /\ pc' = "failed"
              /\ UNCHANGED << portfolio_raw, portfolio >>
    /\ UNCHANGED << run_vars, pnl_vars, lib_vars, wallet_funding_file, remote_answers, rate_vars, app_vars >>

\* Time passes.
Tick ==
    /\ \E t \in Times : t > clock /\ clock' = t
    /\ UNCHANGED << pc, run_vars, pnl_vars, lib_vars, wallet_funding_file, remote_answers,
                    portfolio_vars, rate_db, rate_call, app_vars >>

\* A call of enforce_rate_limit that runs alone: it loads the file (or gets
\* {} when that raises), decides, and saves (or not, when that raises).
EnforceRateLimit ==
    /\ \E email \in Emails, addr \in RateAddresses, readable \in BOOLEAN, writable \in BOOLEAN :
         LET d == enforce_rate_limit(email, addr, load_rate_db(rate_db, readable), clock)
         IN  /\ rate_db' = IF IsNone(d.write) THEN rate_db
                           ELSE save_rate_db(rate_db, Val(d.write), writable)
             /\ rate_call' = Some([email |-> email, address |-> addr, at |-> clock,
                                   before |-> rate_db, ok |-> d.ok, retry_at |-> d.retry_at,
                                   loaded |-> email = "" \/ readable,
                                   saved |-> IsNone(d.write) \/ writable])
    /\ UNCHANGED << pc, run_vars, pnl_vars, lib_vars, wallet_funding_file, remote_answers,
                    portfolio_vars, clock, app_vars >>

\* enforce_rate_limit in session s, first step: `db = _load_rate_db()`.
SessionLoad(s) ==
    /\ sessions[s].pc = "idle"
    /\ Cardinality(grants) < MaxGrants
    /\ \E email \in SessionEmails, addr \in RateAddresses :
         sessions' = [sessions EXCEPT ![s] = [pc |-> "loaded", email |-> email,
                                              address |-> addr, db |-> rate_db, now |-> 0]]
    /\ UNCHANGED << pc, run_vars, pnl_vars, lib_vars, wallet_funding_file, remote_answers,
                    portfolio_vars, rate_vars, grants, app, last_address_file >>

\* enforce_rate_limit in session s, second step: the record of the email in
\* the dict loaded is compared with the address and with `now`; the call
\* returns at once for the stored address and for a refusal, else it goes on
\* to save the dict with the new record.
SessionCheck(s) ==
    /\ sessions[s].pc = "loaded"
    /\ LET d == enforce_rate_limit(sessions[s].email, sessions[s].address,
                                   sessions[s].db, clock)
       IN  sessions' = [sessions EXCEPT ![s] =
               IF IsNone(d.write) THEN IdleSession
               ELSE [@ EXCEPT !.pc = "saving", !.db = Val(d.write), !.now = clock]]
    /\ UNCHANGED << pc, run_vars, pnl_vars, lib_vars, wallet_funding_file, remote_answers,
                    portfolio_vars, rate_vars, grants, app, last_address_file >>

\* enforce_rate_limit in session s, last step: `_save_rate_db(db)` replaces
\* the file by the dict of the session, and the call returns (True, None).
SessionSave(s) ==
    /\ sessions[s].pc = "saving"
    /\ rate_db' = save_rate_db(rate_db, sessions[s].db, TRUE)
    /\ grants' = grants \cup {[key |-> email_key(sessions[s].email),
                                address |-> Lower(sessions[s].address),
                                at |-> sessions[s].now]}
    /\ sessions' = [sessions EXCEPT ![s] = IdleSession]
    /\ UNCHANGED << pc, run_vars, pnl_vars, lib_vars, wallet_funding_file, remote_answers,
                    portfolio_vars, clock, rate_call, app, last_address_file >>

\* What an action of the script leaves alone besides the rate limit store.
app_frame == << pc, run_vars, pnl_vars, lib_vars, wallet_funding_file, remote_answers,
                portfolio_vars, clock, rate_call, sessions, grants >>

\* The script went through `step` and goes on at `next`.
AppStep(step, next) == [app EXCEPT !.pc = next, !.steps = Append(@, step)]

\* Streamlit runs the script again: a widget changed or the page was opened.
AppRerun ==
    /\ app.pc \in {"idle", "stopped", "shown"}
    /\ app' = [app EXCEPT !.pc = "email_gate", !.steps = << >>, !.addr = "", !.dev = FALSE]
    /\ UNCHANGED << app_frame, rate_db, last_address_file >>

\* `if not email_gate(): st.stop()`
AppEmailGate ==
    /\ app.pc = "email_gate"
    /\ \E submit \in BOOLEAN, email \in AppEmails, consent \in BOOLEAN :
         LET g == email_gate(app, submit, email, consent)
         IN  app' = [app EXCEPT !.email_ok = g.email_ok, !.user_email = g.user_email,
                                !.pc = IF g.passed THEN "secrets" ELSE "stopped",
                                !.steps = IF g.passed THEN Append(@, "gate_passed") ELSE @]
    /\ UNCHANGED << app_frame, rate_db, last_address_file >>

\* _require_secrets(): a missing key stops the run.
AppRequireSecrets ==
    /\ app.pc = "secrets"
    /\ \E present \in BOOLEAN :
         app' = [app EXCEPT !.pc = IF present THEN "dev_mode" ELSE "stopped"]
    /\ UNCHANGED << app_frame, rate_db, last_address_file >>

\* `DEV = use_dev_mode()`
AppUseDevMode ==
    /\ app.pc = "dev_mode"
    /\ \E toggle \in BOOLEAN :
         app' = [app EXCEPT !.dev = use_dev_mode(app.user_email, toggle), !.pc = "dev_reset"]
    /\ UNCHANGED << app_frame, rate_db, last_address_file >>

\* `if DEV and st.sidebar.button("Reset my rate limit")`: the record of the
\* email is removed from the file.
AppDevReset ==
    /\ app.pc = "dev_reset"
    /\ \E clicked \in BOOLEAN :
         LET key == email_key(app.user_email)
         IN  IF app.dev /\ clicked /\ ~IsNone(rate_db[key])
             THEN /\ rate_db' = [rate_db EXCEPT ![key] = None]
                  /\ app' = AppStep("rate_limit_reset", "funding_panel")
             ELSE /\ app' = [app EXCEPT !.pc = "funding_panel"]
                  /\ UNCHANGED rate_db
    /\ UNCHANGED << app_frame, last_address_file >>

\* The funding sanity panel: `if st.button("Run quick get_funding() test")`
\* calls get_funding(test_addr) directly; an exception is shown and the
\* script goes on.
AppFundingPanel ==
    /\ app.pc = "funding_panel"
    /\ \E clicked \in BOOLEAN :
         app' = IF app.dev /\ clicked THEN AppStep("panel_get_funding", "portfolio_panel")
                ELSE [app EXCEPT !.pc = "portfolio_panel"]
    /\ UNCHANGED << app_frame, rate_db, last_address_file >>

\* The portfolio sanity panel: get_portfolio(active_address) called
\* directly; an exception is not caught and ends the run.
AppPortfolioPanel ==
    /\ app.pc = "portfolio_panel"
    /\ \E clicked \in BOOLEAN, raised \in BOOLEAN :
         app' = IF app.dev /\ clicked
                THEN AppStep("panel_get_portfolio", IF raised THEN "stopped" ELSE "address_input")
                ELSE [app EXCEPT !.pc = "address_input"]
    /\ UNCHANGED << app_frame, rate_db, last_address_file >>

\* The address box and the "Use last" button, then
\* `if not ADDR_RE.match(addr): st.stop()`.
AppValidate ==
    /\ app.pc = "address_input"
    /\ \E typed \in AppAddresses, use_last \in BOOLEAN :
         LET addr == IF use_last /\ ~IsNone(last_address_file)
                     THEN Val(last_address_file) ELSE typed
             active == IF IsNone(app.active_address)
                       THEN Some(IF IsNone(last_address_file) THEN DEMO_ADDR
                                 ELSE Val(last_address_file))
                       ELSE app.active_address
         IN  app' = [app EXCEPT !.addr = addr, !.active_address = active,
                                !.pc = IF ADDR_RE_match(addr) THEN "throttle" ELSE "stopped",
                                !.steps = IF ADDR_RE_match(addr)
                                          THEN Append(@, "address_valid") ELSE @]
    /\ UNCHANGED << app_frame, rate_db, last_address_file >>

\* `ok, retry_at = enforce_rate_limit(user_email, addr)`; a refusal stops
\* the run, a grant of another address than the active one is kept in the
\* session and in data/last_address.json (save_last_address swallows a
\* failure).
AppThrottle ==
    /\ app.pc = "throttle"
    /\ \E readable \in BOOLEAN, writable \in BOOLEAN, saved \in BOOLEAN :
         LET d == enforce_rate_limit(app.user_email, app.addr,
                                     load_rate_db(rate_db, readable), clock)
             is_new_address == Lower(app.addr) # Lower(Val(app.active_address))
         IN  /\ rate_db' = IF IsNone(d.write) THEN rate_db
                           ELSE save_rate_db(rate_db, Val(d.write), writable)
             /\ app' = [app EXCEPT
                           !.pc = after_throttle(d.ok),
                           !.steps = Append(@, IF d.ok THEN "granted" ELSE "refused"),
                           !.active_address = IF d.ok /\ is_new_address
                                              THEN Some(app.addr) ELSE @]
             /\ last_address_file' = IF d.ok /\ is_new_address /\ saved
                                     THEN Some(app.addr) ELSE last_address_file
    /\ UNCHANGED app_frame

\* `funding = cached_funding(addr)`: get_funding starts; an exception stops
\* the run.
AppFunding ==
    /\ app.pc = "funding"
    /\ \E ok \in BOOLEAN :
         app' = IF ok THEN AppStep("cached_funding", "defunding")
                ELSE [AppStep("cached_funding", "stopped") EXCEPT
                         !.steps = Append(@, "funding_error")]
    /\ UNCHANGED << app_frame, rate_db, last_address_file >>

\* `defunding = cached_defunding(addr)`
AppDefunding ==
    /\ app.pc = "defunding"
    /\ \E ok \in BOOLEAN :
         app' = IF ok THEN AppStep("cached_defunding", "portfolio")
                ELSE [AppStep("cached_defunding", "stopped") EXCEPT
                         !.steps = Append(@, "defunding_error")]
    /\ UNCHANGED << app_frame, rate_db, last_address_file >>

\* `portfolio = cached_portfolio(addr)`
AppPortfolio ==
    /\ app.pc = "portfolio"
    /\ \E ok \in BOOLEAN :
         app' = IF ok THEN AppStep("cached_portfolio", "pnl")
                ELSE [AppStep("cached_portfolio", "stopped") EXCEPT
                         !.steps = Append(@, "balances_error")]
    /\ UNCHANGED << app_frame, rate_db, last_address_file >>

\* `pnl = compute_pnl(funded_usd, defunded_usd, current_usd)`
AppComputePnl ==
    /\ app.pc = "pnl"
    /\ \E ok \in BOOLEAN :
         app' = IF ok THEN AppStep("compute_pnl", "results")
                ELSE [AppStep("compute_pnl", "stopped") EXCEPT
                         !.steps = Append(@, "pnl_error")]
    /\ UNCHANGED << app_frame, rate_db, last_address_file >>

\* "Your ROI snapshot": the metrics are shown.
AppShowResults ==
    /\ app.pc = "results"
    /\ app' = AppStep("roi_shown", "shown")
    /\ UNCHANGED << app_frame, rate_db, last_address_file >>

\* funding.build_wallet_funding: the history of WALLET is fetched (a failed
\* fetch raises and nothing is saved), every record is parsed, the events
\* are sorted by block and saved to data/wallet_funding.json.
BuildWalletFunding ==
    /\ pc = "idle"
    /\ \E history \in SeqsUpTo(Shapes, MaxTxs), fetched \in BOOLEAN :
         LET txs == [k \in 1..Len(history) |-> RawTx(history[k], k)]
         IN  IF fetched
             THEN /\ pc' = "built"
                  /\ all_txs' = txs
                  /\ wallet_funding_file' =
                        Some(sorted_by_block(funding_events_from(txs, 1, << >>)))
             ELSE /\ history = << >>
                  /\ pc' = "failed"
                  /\ UNCHANGED << all_txs, wallet_funding_file >>
    /\ UNCHANGED << address, i, funding_events, defunding_events, checks, funding, defunding,
                    pnl_vars, lib_vars, remote_answers, portfolio_vars, rate_vars, app_vars >>

Next ==
    \/ Analyse
    \/ FetchPage
    \/ FetchFails
    \/ DefundingFetchFails
    \/ ParseFundingTx
    \/ FinishFunding
    \/ ParseDefundingTx
    \/ FinishDefunding
    \/ PnlMain
    \/ BuildWalletFunding

\* The analysis run of app.py, the build of funding.py and the command line run of pnl.py.
Spec == Init /\ [][Next]_vars

\* The command line run of pnl.py alone.
SpecPnl == Init /\ [][PnlMain]_vars

\* fetch_transactions on its own, against any history source.
NextFetch == Analyse \/ FetchTransactionsPage \/ FetchTransactionsFails

SpecFetch == Init /\ [][NextFetch]_vars

\* The same, where the loop goes on as long as it can.
SpecFetchFair == SpecFetch /\ WF_vars(FetchTransactionsPage)

\* Direct calls of compute_pnl, with price lookups in between.
NextCalls == ComputePnlCall \/ GetPriceAtTime

SpecCalls == Init /\ [][NextCalls]_vars

\* The two cached lookups against sources that answer a request the same
\* way every time.
NextCache == ResolveUsdPrice \/ ResolvePriceAtTime

SpecCache == Init /\ [][NextCache]_vars

\* The portfolio fetch on its own.
SpecPortfolio == Init /\ [][GetPortfolio]_vars

\* Calls of enforce_rate_limit one after the other, as time passes.
NextRate == Tick \/ EnforceRateLimit

SpecRate == Init /\ [][NextRate]_vars

\* Sessions of the app that run enforce_rate_limit at the same time.
NextSessions ==
    \/ Tick
    \/ \E s \in Sessions : SessionLoad(s)
    \/ \E s \in Sessions : SessionCheck(s)
    \/ \E s \in Sessions : SessionSave(s)

SpecSessions == Init /\ [][NextSessions]_vars

\* One session of the app, its script run again and again.
NextApp ==
    \/ Tick
    \/ AppRerun
    \/ AppEmailGate
    \/ AppRequireSecrets
    \/ AppUseDevMode
    \/ AppDevReset
    \/ AppFundingPanel
    \/ AppPortfolioPanel
    \/ AppValidate
    \/ AppThrottle
    \/ AppFunding
    \/ AppDefunding
    \/ AppPortfolio
    \/ AppComputePnl
    \/ AppShowResults

SpecApp == Init /\ [][NextApp]_vars

\* The price lookups called in any order, each with any remote answer.
NextPrice == GetUsdPrice \/ GetPriceAtTime \/ GetPriceUsd

SpecPrice == Init /\ [][NextPrice]_vars

(***************************************************************************)
(* Vocabulary of the properties                                            *)
(***************************************************************************)
Abs(x) == IF x < 0 THEN -x ELSE x

Range(q) == { q[k] : k \in 1..Len(q) }

\* The records the loop of get_funding / get_defunding has been through.
FundingParsed ==
    IF pc = "funding" THEN i - 1
    ELSE IF pc \in {"defunding", "done"} THEN Len(all_txs) ELSE 0

DefundingParsed ==
    IF pc = "defunding" THEN i - 1
    ELSE IF pc = "done" THEN Len(all_txs) ELSE 0

\* Event e of the inbound (funding) list was made from sub-transfer t of record tx.
InboundEthOf(e, tx, t) ==
    /\ e.hash = tx.hash
    /\ e.token = "ETH"
    /\ e.from = Lower(t.from_address)
    /\ e.amount = t.value_formatted

InboundErc20Of(e, tx, t) ==
    /\ e.hash = tx.hash
    /\ e.token # "ETH"
    /\ e.token = GetStr(t.token_symbol, "UNKNOWN")
    /\ e.from = Lower(t.from_address)
    /\ e.amount = t.value_formatted

\* Event e of the outbound (defunding) list was made from sub-transfer t of record tx.
OutboundEthOf(e, tx, t) ==
    /\ e.hash = tx.hash
    /\ e.token = "ETH"
    /\ e.to = Lower(t.to_address)
    /\ e.amount = t.value_formatted

OutboundErc20Of(e, tx, t) ==
    /\ e.hash = tx.hash
    /\ e.token # "ETH"
    /\ e.token = GetStr(t.token_symbol, "UNKNOWN")
    /\ e.to = Lower(t.to_address)
    /\ e.amount = t.value_formatted

\* Sub-transfer t is emitted by the inbound / by the outbound extractor.
EthEmittedInbound(tx, t) == \E e \in Range(funding_events) : InboundEthOf(e, tx, t)

EthEmittedOutbound(tx, t) == \E e \in Range(defunding_events) : OutboundEthOf(e, tx, t)

Erc20EmittedInbound(tx, t) == \E e \in Range(funding_events) : InboundErc20Of(e, tx, t)

Erc20EmittedOutbound(tx, t) == \E e \in Range(defunding_events) : OutboundErc20Of(e, tx, t)

\* The sum of usd over the events of a list whose status is in S.
RECURSIVE UsdOver(_, _)
UsdOver(events, S) ==
    IF events = << >> THEN 0
    ELSE UsdOver(SubSeq(events, 1, Len(events) - 1), S)
         + (IF events[Len(events)].status \in S THEN events[Len(events)].usd ELSE 0)

NotAccepted(e) == e.status # "accepted"

\* The events that were classified by a contract check, in the order of the checks.
CheckedEvents == SelectSeq(funding_events, NotAccepted) \o SelectSeq(defunding_events, NotAccepted)

(***************************************************************************)
(* C1: the funded and the defunded total are the sum of usd over exactly   *)
(* the accepted events of the list; rejected and eoa events add nothing    *)
(* and stay in the full event list that is returned.                       *)
(***************************************************************************)
C1_AcceptedOnlyTotals ==
    /\ pc = "done" =>
         /\ defunding.events = defunding_events
         /\ defunding.defunded_usd = UsdOver(defunding.events, {"accepted"})
         /\ funding.events = funding_events
         /\ funding.funded_usd = UsdOver(funding.events, {"accepted"})
    /\ (pc = "cli_done" /\ files.funding.kind = "list") =>
         args.funded_usd = UsdOver(files.funding.events, {"accepted"})
    /\ (pc = "cli_done" /\ files.defunding.kind = "list") =>
         args.defunded_usd = UsdOver(files.defunding.events, {"accepted"})
    /\ (pc = "cli_done"
          /\ files.funding.events = << [usd |-> 100000, status |-> "accepted"],
                                       [usd |-> 50000, status |-> "rejected"] >>) =>
         args.funded_usd = 100000

\* A finished run whose outbound list holds an accepted event and a rejected
\* one that is worth something.
C1_Witness ==
    /\ pc = "done"
    /\ \E e \in Range(defunding.events) : e.status = "accepted" /\ e.usd > 0
    /\ \E e \in Range(defunding.events) : e.status = "rejected" /\ e.usd > 0
    /\ defunding.defunded_usd < UsdOver(defunding.events, Statuses)

(***************************************************************************)
(* C2: with funded_usd - defunded_usd > 0, roi_pct of compute_pnl is       *)
(* (net_pnl / net_funded) * 100 of the unrounded net values, rounded once  *)
(* to 2 decimals: the hundredth of a percent nearest to the exact quotient *)
(* (ties to even).  funded 1000, defunded 0, current 1500 give net_funded  *)
(* 1000, net_pnl 500 and roi_pct 50.0.                                     *)
(***************************************************************************)
\* r is 10000 * np / nf rounded to the nearest integer, ties to even (nf > 0).
\* 10000 * np - r * nf is taken in two steps of 100 to stay within 32 bits.
IsRoundedRoi(r, np, nf) ==
    LET rq == r \div 100
        rr == r % 100
        d == 100 * (100 * np - rq * nf) - rr * nf
    IN  \/ 2 * Abs(d) < nf
        \/ 2 * Abs(d) = nf /\ r % 2 = 0

C2_RoiFormula ==
    pc = "cli_done" =>
        LET nf == args.funded_usd - args.defunded_usd
            np == args.current_value_usd - nf
        IN  /\ nf > 0 => IsRoundedRoi(pnl.roi_pct, np, nf)
            /\ (args.funded_usd = 1000000 /\ args.defunded_usd = 0
                  /\ args.current_value_usd = 1500000) =>
                 (pnl.net_funded_usd = 1000000 /\ pnl.net_pnl_usd = 500000 /\ pnl.roi_pct = 5000)

\* compute_pnl was called with a positive basis whose rounding to cents would
\* change the quotient.
C2_Witness ==
    /\ pc = "cli_done"
    /\ args.funded_usd - args.defunded_usd > 0
    /\ args.funded_usd - args.defunded_usd # pnl.net_funded_usd
    /\ pnl.roi_pct # 0

(***************************************************************************)
(* C3: with funded_usd - defunded_usd <= 0 (0 included) compute_pnl        *)
(* returns normally and roi_pct is exactly 0.0 whatever the current value  *)
(* is.  funded 100, defunded 150, current 10 give net_funded -50 and       *)
(* roi_pct 0.0.                                                            *)
(***************************************************************************)
C3_ZeroBasisClamp ==
    /\ pc = "cli_done" =>
         /\ pnl # None
         /\ (args.funded_usd - args.defunded_usd <= 0) => pnl.roi_pct = 0
         /\ (args.funded_usd = 100000 /\ args.defunded_usd = 150000
               /\ args.current_value_usd = 10000) =>
              (pnl.net_funded_usd = -50000 /\ pnl.roi_pct = 0)
    /\ (pc = "cli_error") =>
         \/ load_json_file_raises(files.funding)
         \/ load_json_file_raises(files.portfolio)
         \/ files.defunding.kind = "malformed"
         \/ IsNone(extract_total_funded_usd(files.funding))
         \/ IsNone(extract_current_usd_value(files.portfolio))
         \/ IsNone(extract_total_defunded_usd(files.defunding))

\* compute_pnl was called with a negative basis and a current value above 0.
C3_Witness ==
    /\ pc = "cli_done"
    /\ args.funded_usd - args.defunded_usd < 0
    /\ args.current_value_usd > 0
    /\ pnl.roi_pct = 0

\* compute_pnl was called with a basis of exactly 0.
C3_WitnessZero ==
    /\ pc = "cli_done"
    /\ args.funded_usd - args.defunded_usd = 0
    /\ args.funded_usd > 0
    /\ pnl.roi_pct = 0


(***************************************************************************)
(* C4: a transfer, native or ERC-20, whose price or USD valuation is       *)
(* unavailable is dropped by the extractor: no event is emitted for it, so *)
(* none with usd = 0, and it adds no 0 term to a total.                    *)
(***************************************************************************)
\* No price of the day for a native transfer.
EthUnpriced(tx) == IsNone(get_eth_usd_price(DateOf(tx)))

\* No USD valuation for an ERC-20 transfer: neither usd_value nor usdValue,
\* and nothing in the record's own value either.
Erc20Unvalued(tx, t) == IsNone(t.usd_value) /\ IsNone(t.usdValue) /\ ~Truthy(tx.value)

C4_UnpricedTransferDropped ==
    \A n \in 1..Len(all_txs) :
        LET tx == all_txs[n]
        IN  /\ \A k \in 1..Len(tx.native_transfers) :
                 EthUnpriced(tx) =>
                    /\ ~EthEmittedInbound(tx, tx.native_transfers[k])
                    /\ ~EthEmittedOutbound(tx, tx.native_transfers[k])
            /\ \A k \in 1..Len(tx.erc20_transfers) :
                 Erc20Unvalued(tx, tx.erc20_transfers[k]) =>
                    /\ ~Erc20EmittedInbound(tx, tx.erc20_transfers[k])
                    /\ ~Erc20EmittedOutbound(tx, tx.erc20_transfers[k])

(***************************************************************************)
(* C5: when the contract check fails (exception or timeout, non-200        *)
(* response, malformed body) for an address that is in no registry, the    *)
(* classification is eoa with reason from_eoa_not_in_registry (inbound) or *)
(* to_eoa_not_in_registry (outbound); the failure does not end the run and *)
(* the event is emitted.                                                   *)
(***************************************************************************)
InboundChecks == Len(SelectSeq(funding_events, NotAccepted))

C5_CheckFailsOpen ==
    /\ Len(CheckedEvents) = Len(checks)
    /\ \A k \in 1..Len(checks) :
         checks[k].response \in FailedResponses =>
            /\ CheckedEvents[k].status = "eoa"
            /\ k <= InboundChecks =>
                 /\ CheckedEvents[k].reason = "from_eoa_not_in_registry"
                 /\ CheckedEvents[k].from = checks[k].address
            /\ k > InboundChecks =>
                 /\ CheckedEvents[k].reason = "to_eoa_not_in_registry"
                 /\ CheckedEvents[k].to = checks[k].address
    /\ pc = "failed" =>
         /\ Len(checks) = InboundChecks
         /\ checks # << >> => funding # None

\* A finished run in which a check failed for an inbound and for an outbound event.
C5_Witness ==
    /\ pc = "done"
    /\ \E k \in 1..Len(checks) : k <= InboundChecks /\ checks[k].response \in FailedResponses
    /\ \E k \in 1..Len(checks) : k > InboundChecks /\ checks[k].response = RespTimeout

(***************************************************************************)
(* C6: an event is (accepted, known_source | known_sink) exactly when its  *)
(* lower-cased counterparty is a key of the registry of its direction,     *)
(* and then no contract check is made; otherwise it is (rejected,          *)
(* from | to_contract_not_in_registry) exactly when the contract check     *)
(* answers true, and (eoa, from | to_eoa_not_in_registry) otherwise.       *)
(* Inbound events carry only known_source / from_* reasons, outbound       *)
(* events only known_sink / to_*.                                          *)
(***************************************************************************)
\* The one response that is the answer "a verified contract".
AnswersTrue(res) ==
    /\ ~res.raises
    /\ res.status_code = 200
    /\ res.json_ok
    /\ res.is_list
    /\ Len(res.abis) > 0
    /\ res.abis[1] # ""
    /\ res.abis[1] # "Contract source code not verified"

C6_Classification ==
    /\ \A e \in Range(funding_events) :
         /\ e.status \in Statuses
         /\ e.status = "accepted" <=> e.from \in KNOWN_SOURCES
         /\ e.reason = (CASE e.status = "accepted" -> "known_source"
                          [] e.status = "rejected" -> "from_contract_not_in_registry"
                          [] OTHER -> "from_eoa_not_in_registry")
    /\ \A e \in Range(defunding_events) :
         /\ e.status \in Statuses
         /\ e.status = "accepted" <=> e.to \in KNOWN_SINKS
         /\ e.reason = (CASE e.status = "accepted" -> "known_sink"
                          [] e.status = "rejected" -> "to_contract_not_in_registry"
                          [] OTHER -> "to_eoa_not_in_registry")
    /\ Len(checks) = Len(CheckedEvents)
    /\ \A k \in 1..Len(checks) :
         /\ checks[k].address =
              (IF k <= InboundChecks THEN CheckedEvents[k].from ELSE CheckedEvents[k].to)
         /\ CheckedEvents[k].status = "rejected" <=> AnswersTrue(checks[k].response)

\* A finished run with an accepted and a rejected outbound event, an inbound
\* event from a registered sink (not a source) and a sender spelt in mixed case.
C6_Witness ==
    /\ pc = "done"
    /\ \E e \in Range(defunding_events) : e.status = "accepted" /\ e.to = "0xk"
    /\ \E e \in Range(defunding_events) : e.status = "rejected"
    /\ \E e \in Range(funding_events) : e.from = "0xk" /\ e.status = "eoa"

(***************************************************************************)
(* C7: a native or token sub-transfer whose sender and receiver both equal *)
(* the target wallet is emitted by neither the inbound nor the outbound    *)
(* extractor.                                                              *)
(***************************************************************************)
IsSelfTransfer(t) == Lower(t.from_address) = target /\ Lower(t.to_address) = target

C7_NoSelfTransfer ==
    \A n \in 1..Len(all_txs) :
        LET tx == all_txs[n]
        IN  /\ \A k \in 1..Len(tx.native_transfers) :
                 IsSelfTransfer(tx.native_transfers[k]) =>
                    /\ ~EthEmittedInbound(tx, tx.native_transfers[k])
                    /\ ~EthEmittedOutbound(tx, tx.native_transfers[k])
            /\ \A k \in 1..Len(tx.erc20_transfers) :
                 IsSelfTransfer(tx.erc20_transfers[k]) =>
                    /\ ~Erc20EmittedInbound(tx, tx.erc20_transfers[k])
                    /\ ~Erc20EmittedOutbound(tx, tx.erc20_transfers[k])

\* Both extractors went through a priced native self-transfer above the floor
\* and a valued token self-transfer.
C7_Witness ==
    /\ pc = "done"
    /\ \E n \in 1..Len(all_txs) : \E k \in 1..Len(all_txs[n].native_transfers) :
         /\ IsSelfTransfer(all_txs[n].native_transfers[k])
         /\ all_txs[n].native_transfers[k].value_formatted >= EthDustFloor
         /\ ~EthUnpriced(all_txs[n])
    /\ \E n \in 1..Len(all_txs) : \E k \in 1..Len(all_txs[n].erc20_transfers) :
         /\ IsSelfTransfer(all_txs[n].erc20_transfers[k])
         /\ all_txs[n].erc20_transfers[k].value_formatted >= Erc20Floor

(***************************************************************************)
(* C8: the native dust floor is inclusive at 0.01: a native transfer below *)
(* 0.01 (0.009) is never emitted, and a native transfer of exactly 0.01    *)
(* that is one-sided for the wallet its extractor filters on (WALLET for   *)
(* funding_v1, the target for defunding), on a day with a known price, is  *)
(* emitted.                                                                *)
(***************************************************************************)
C8_DustFloor ==
    /\ \A e \in Range(funding_events) \cup Range(defunding_events) :
         e.token = "ETH" => e.amount >= 10
    /\ \A n \in 1..Len(all_txs) : \A k \in 1..Len(all_txs[n].native_transfers) :
         LET tx == all_txs[n]
             t == tx.native_transfers[k]
         IN  /\ t.value_formatted < 10 =>
                  ~EthEmittedInbound(tx, t) /\ ~EthEmittedOutbound(tx, t)
             /\ (/\ n <= FundingParsed
                 /\ t.value_formatted = 10
                 /\ ~EthUnpriced(tx)
                 /\ Lower(t.to_address) = WALLET
                 /\ Lower(t.from_address) # WALLET) => EthEmittedInbound(tx, t)
             /\ (/\ n <= DefundingParsed
                 /\ t.value_formatted = 10
                 /\ ~EthUnpriced(tx)
                 /\ Lower(t.from_address) = target
                 /\ Lower(t.to_address) # target) => EthEmittedOutbound(tx, t)

\* A finished run that went through an outbound transfer of 0.009 and
\* emitted an outbound transfer of 0.01.
C8_Witness ==
    /\ pc = "done"
    /\ \E e \in Range(defunding_events) : e.token = "ETH" /\ e.amount = 10
    /\ \E n \in 1..Len(all_txs) : \E k \in 1..Len(all_txs[n].native_transfers) :
         /\ all_txs[n].native_transfers[k].value_formatted = 9
         /\ Lower(all_txs[n].native_transfers[k].from_address) = target
         /\ ~EthUnpriced(all_txs[n])

\* A funding pass that emitted an inbound transfer of 0.01.
C8_WitnessInbound ==
    /\ pc = "defunding"
    /\ \E e \in Range(funding_events) : e.token = "ETH" /\ e.amount = 10

(***************************************************************************)
(* C9: a token (ERC-20) transfer is emitted only if its amount is at least *)
(* 1 token unit and its symbol is present and resolved: a transfer whose   *)
(* symbol is absent, null, empty or "UNKNOWN" is never emitted, inbound or *)
(* outbound.                                                               *)
(***************************************************************************)
C9_TokenNeedsKnownSymbol ==
    /\ \A e \in Range(funding_events) \cup Range(defunding_events) :
         e.token # "ETH" => e.amount >= 1000 /\ e.token \notin {Null, "", "UNKNOWN"}
    /\ \A n \in 1..Len(all_txs) : \A k \in 1..Len(all_txs[n].erc20_transfers) :
         LET tx == all_txs[n]
             t == tx.erc20_transfers[k]
         IN  (t.token_symbol \in {Absent, Null, "", "UNKNOWN"} \/ t.value_formatted < 1000) =>
                ~Erc20EmittedInbound(tx, t) /\ ~Erc20EmittedOutbound(tx, t)

(***************************************************************************)
(* C10: for the address the caller asks to analyse (the target), a         *)
(* sub-transfer is emitted as inbound only when its receiver is the target *)
(* and its sender is not, and as outbound only when its sender is the      *)
(* target and its receiver is not; one that touches the target on neither  *)
(* side is never emitted, and none is emitted as both.                     *)
(***************************************************************************)
IsInboundFor(t, wallet) == Lower(t.to_address) = wallet /\ Lower(t.from_address) # wallet

IsOutboundFor(t, wallet) == Lower(t.from_address) = wallet /\ Lower(t.to_address) # wallet

C11_FetchTerminates == (pc = "fetch") ~> (pc # "fetch")

\* What does hold: the loop returns at the first page without a cursor or
\* the first page that brings the count to the cap, with all the records.
C11_ReturnsAtCap ==
    /\ pc = "fetch" => Len(all_txs) < SafetyCap
    /\ pc = "fetched" =>
         /\ Len(all_txs) < SafetyCap + PageLimit
         /\ ~TruthyStr(fetch_cursor) \/ Len(all_txs) >= SafetyCap
         /\ \A n \in 1..Len(all_txs) : all_txs[n].hash = n

(***************************************************************************)
(* C12: when a page fetch of the history source comes back with a          *)
(* non-success response the analysis ends with an error: it stays failed,  *)
(* the records of the pages fetched before are discarded, and no event     *)
(* list, total or PnL figure derived from them is returned.                *)
(***************************************************************************)
C12_FailedFetchDiscards ==
    /\ [](pc = "failed" =>
            /\ all_txs = << >>
            /\ defunding = None
            /\ defunding_events = << >>
            /\ funding = None => (funding_events = << >> /\ checks = << >>)
            /\ pnl = None
            /\ args = None)
    /\ [][pc = "failed" => pc' = "failed"]_vars

\* The second fetch of the run failed after the funding pass had emitted events.
C12_Witness ==
    /\ pc = "failed"
    /\ funding # None
    /\ funding_events # << >>

\* The first fetch of the run failed.
C12_WitnessFirstFetch ==
    /\ pc = "failed"
    /\ funding = None

(***************************************************************************)
(* C13: event USD values are accumulated at full precision and rounded to  *)
(* 2 decimals once, on the total: the funded and the defunded total of a   *)
(* run is the exact sum of the values of its accepted events (amount times *)
(* price for a native transfer, the valuation of the record for a token    *)
(* transfer), rounded once; no event is rounded before the sum.            *)
(***************************************************************************)
\* The value of event e at full precision, in millionths of a dollar.
ExactUsdInbound(e) ==
    IF e.token = "ETH" THEN ETH_PRICE_DB[e.timestamp] * e.amount
    ELSE 1000 * funding_erc20_usd(all_txs[e.hash])

ExactUsdOutbound(e) ==
    IF e.token = "ETH" THEN ETH_PRICE_DB[e.timestamp] * e.amount
    ELSE LET tx == all_txs[e.hash]
             t == CHOOSE t \in Range(tx.erc20_transfers) : OutboundErc20Of(e, tx, t)
         IN  1000 * defunding_erc20_usd(t, tx)

RECURSIVE ExactAcceptedInbound(_)
ExactAcceptedInbound(events) ==
    IF events = << >> THEN 0
    ELSE (IF Head(events).status = "accepted" THEN ExactUsdInbound(Head(events)) ELSE 0)
         + ExactAcceptedInbound(Tail(events))

RECURSIVE ExactAcceptedOutbound(_)
ExactAcceptedOutbound(events) ==
    IF events = << >> THEN 0
    ELSE (IF Head(events).status = "accepted" THEN ExactUsdOutbound(Head(events)) ELSE 0)
         + ExactAcceptedOutbound(Tail(events))

\* Millionths of a dollar to mills, rounded to the cent.
RoundOnce(micro) == 10 * RoundDiv(micro, 10000)

C13_RoundedOnceOnTotal ==
    pc = "done" =>
        /\ defunding.defunded_usd = RoundOnce(ExactAcceptedOutbound(defunding.events))
        /\ funding.funded_usd = RoundOnce(ExactAcceptedInbound(funding.events))

(***************************************************************************)
(* C14: within one analysis run, two emitted events with the same          *)
(* counterparty address and the same direction carry the same status and   *)
(* reason, whatever the contract checks of the run come back with (also a  *)
(* check that fails on one call and succeeds on another).                  *)
(***************************************************************************)
C14_SameAddressSameLabel ==
    /\ \A e1, e2 \in Range(funding_events) :
         e1.from = e2.from => (e1.status = e2.status /\ e1.reason = e2.reason)
    /\ \A e1, e2 \in Range(defunding_events) :
         e1.to = e2.to => (e1.status = e2.status /\ e1.reason = e2.reason)

(***************************************************************************)
(* C15: in every result returned by compute_pnl the returned fields        *)
(* satisfy net_funded_usd = funded_usd - defunded_usd and                  *)
(* net_pnl_usd = current_value_usd - net_funded_usd.                       *)
(***************************************************************************)
C15_ReturnedFieldsAddUp ==
    pc = "cli_done" =>
        /\ pnl.net_funded_usd = pnl.funded_usd - pnl.defunded_usd
        /\ pnl.net_pnl_usd = pnl.current_value_usd - pnl.net_funded_usd

\* What does hold: each returned field is the exact figure rounded to the
\* cent, so the returned fields add up to within one cent, and exactly when
\* the three arguments are whole cents.
WholeCents(x) == x % 10 = 0

C15_AddUpBeforeRounding ==
    pc = "cli_done" =>
        LET net_funded == args.funded_usd - args.defunded_usd
            net_pnl == args.current_value_usd - net_funded
        IN  /\ pnl.net_funded_usd = Round2(net_funded, 1)
            /\ pnl.net_pnl_usd = Round2(net_pnl, 1)
            /\ Abs(pnl.net_funded_usd - (pnl.funded_usd - pnl.defunded_usd)) <= 10
            /\ Abs(pnl.net_pnl_usd - (pnl.current_value_usd - pnl.net_funded_usd)) <= 10
            /\ (WholeCents(args.funded_usd) /\ WholeCents(args.defunded_usd)
                  /\ WholeCents(args.current_value_usd)) =>
                 /\ pnl.net_funded_usd = pnl.funded_usd - pnl.defunded_usd
                 /\ pnl.net_pnl_usd = pnl.current_value_usd - pnl.net_funded_usd

(***************************************************************************)
(* C16: when the remote historical-price source fails (network error,      *)
(* non-success response, empty result set) the price lookup returns the    *)
(* distinct value unavailable (None): it does not return 0 or any other    *)
(* number a caller could value an event with.                              *)
(***************************************************************************)
FailedRemote == {RemoteNetworkError, RemoteHttpError, RemoteEmptyRows}

C16_FailedLookupUnavailable ==
    (/\ lookup # None
     /\ Val(lookup).remote
     /\ Val(Val(lookup).response) \in FailedRemote) => Val(lookup).result = None

\* What does hold: get_usd_price of mvp/price_cache.py returns None on every
\* failure of its request and caches nothing then.
C16_MvpLookupUnavailable ==
    (/\ lookup # None
     /\ Val(lookup).fn = "get_usd_price"
     /\ Val(lookup).remote
     /\ Val(Val(lookup).response) \in FailedRemote) =>
            /\ Val(lookup).result = None
            /\ price_cache[<<TokenLower(Val(lookup).token), Val(lookup).timestamp>>] = None

(***************************************************************************)
(* C17: for every transaction history funded_usd and defunded_usd are      *)
(* non-negative: every emitted accepted event has usd >= 0, so no record   *)
(* (also an ERC-20 record that carries a negative or zero USD value) makes *)
(* a total negative.                                                       *)
(***************************************************************************)
C17_TotalsNonNegative ==
    /\ \A e \in Range(funding_events) \cup Range(defunding_events) :
         e.status = "accepted" => e.usd >= 0
    /\ pc = "done" => (funding.funded_usd >= 0 /\ defunding.defunded_usd >= 0)

\* What does hold: the inbound side, where funding_v1.parse_erc20 drops usd <= 0.
C17_FundedNonNegative ==
    /\ \A e \in Range(funding_events) : e.usd > 0
    /\ funding # None => funding.funded_usd >= 0

(***************************************************************************)
(* C18: for every emitted event, native or ERC-20, usd is the event's      *)
(* token amount multiplied by the historical price of its token on its     *)
(* date (to the cent): a native event is worth amount times the ETH price  *)
(* of its date, and the events of one token and one date are worth one     *)
(* price per unit.                                                         *)
(***************************************************************************)
\* usd (in mills, whole cents) is amount (in thousandths) times price (in
\* mills) rounded to the cent.
IsAmountTimesPrice(usd, amount, price) == usd = Round2(price * amount, 1000)

\* Two events of one token and date are worth one price per unit: each usd
\* is within half a cent of amount times that price, so the cross products
\* differ by no more than half a cent times the two amounts.
OnePriceValues(e1, e2) ==
    Abs(e1.usd * e2.amount - e2.usd * e1.amount) <= 5 * (e1.amount + e2.amount)

EventsAtAmountTimesPrice(events) ==
    /\ \A e \in Range(events) :
         e.token = "ETH" => IsAmountTimesPrice(e.usd, e.amount, ETH_PRICE_DB[e.timestamp])
    /\ \A e1, e2 \in Range(events) :
         (e1.token # "ETH" /\ e1.token = e2.token /\ e1.timestamp = e2.timestamp) =>
            OnePriceValues(e1, e2)

C18_UsdIsAmountTimesPrice ==
    /\ EventsAtAmountTimesPrice(funding_events)
    /\ EventsAtAmountTimesPrice(defunding_events)

\* What does hold: the native half.
C18_NativeUsdIsAmountTimesPrice ==
    \A e \in Range(funding_events) \cup Range(defunding_events) :
        e.token = "ETH" => IsAmountTimesPrice(e.usd, e.amount, ETH_PRICE_DB[e.timestamp])

(***************************************************************************)
(* C19: the price lookup consults the in-memory cache, then the static     *)
(* offline table, then the remote source: a remote call is made only when  *)
(* the key is in neither the cache nor the static table, and a key that is *)
(* in the cache or in the static table is answered with the stored value   *)
(* without a remote call.                                                  *)
(***************************************************************************)
\* The offline daily ETH table a lookup has at hand: STATIC_PRICE_CACHE in
\* pricing_engine.py, data/eth_price_db.json (ETH_PRICE_DB) in mvp.
OfflineTable(fn) == IF fn = "get_price_at_time" THEN STATIC_PRICE_CACHE ELSE ETH_PRICE_DB

InOfflineTable(l) == DateOfTimestamp(l.timestamp) \in DOMAIN OfflineTable(l.fn)

FollowsLookupOrder(l) ==
    /\ l.remote => (IsNone(l.cached) /\ ~InOfflineTable(l))
    /\ ~IsNone(l.cached) => (~l.remote /\ l.result = l.cached)
    /\ (IsNone(l.cached) /\ InOfflineTable(l)) =>
         /\ ~l.remote
         /\ l.result = Some(OfflineTable(l.fn)[DateOfTimestamp(l.timestamp)])

C19_LookupOrder == lookup # None => FollowsLookupOrder(Val(lookup))

\* What does hold: get_price_at_time of pricing_engine.py follows the order.
C19_EngineLookupOrder ==
    (lookup # None /\ Val(lookup).fn = "get_price_at_time") => FollowsLookupOrder(Val(lookup))

C21_FetchWithinCap ==
    /\ Len(all_txs) <= SafetyCap
    /\ pc = "fetch" =>
         /\ Len(all_txs) < SafetyCap
         /\ all_txs # << >> => TruthyStr(fetch_cursor)

\* What holds of the loop: it asks for a page only below the cap and, after
\* the first page, only with the cursor of the page before; the list grows
\* past the cap by less than one page.
C21_NoPageAfterStop ==
    /\ pc = "fetch" =>
         /\ Len(all_txs) < SafetyCap
         /\ all_txs # << >> => TruthyStr(fetch_cursor)
    /\ Len(all_txs) < SafetyCap + PageLimit

(***************************************************************************)
(* C22: the event list of an extraction keeps the order of the history     *)
(* source: events of a record fetched earlier precede those of a record    *)
(* fetched later, and the sub-transfers of one record keep their order     *)
(* within their kind; the extractor applies no sort of its own.            *)
(***************************************************************************)
\* s can be had from t by leaving elements out.
RECURSIVE IsSubseq(_, _)
IsSubseq(s, t) ==
    IF s = << >> THEN TRUE
    ELSE IF t = << >> THEN FALSE
    ELSE IF Head(s) = Head(t) THEN IsSubseq(Tail(s), Tail(t))
    ELSE IsSubseq(s, Tail(t))

Amounts(q) == [k \in 1..Len(q) |-> q[k].amount]

TransferAmounts(q) == [k \in 1..Len(q) |-> q[k].value_formatted]

\* Hashes number the records in the order they were fetched.
InFetchOrder(events) ==
    \A a, b \in 1..Len(events) : a < b => events[a].hash <= events[b].hash

\* Within one record: native events first, and each kind in the order of
\* the record's sub-transfers.
InRecordOrder(events) ==
    /\ \A a, b \in 1..Len(events) :
         a < b /\ events[a].hash = events[b].hash =>
            ~(events[a].token # "ETH" /\ events[b].token = "ETH")
    /\ \A n \in 1..Len(all_txs) :
         /\ IsSubseq(Amounts(SelectSeq(events, LAMBDA e : e.hash = n /\ e.token = "ETH")),
                     TransferAmounts(all_txs[n].native_transfers))
         /\ IsSubseq(Amounts(SelectSeq(events, LAMBDA e : e.hash = n /\ e.token # "ETH")),
                     TransferAmounts(all_txs[n].erc20_transfers))

InBlockOrder(events) ==
    \A a, b \in 1..Len(events) : a < b => events[a].block <= events[b].block

SavedFunding == IF wallet_funding_file = None THEN << >> ELSE Val(wallet_funding_file)

\* The statement as claimed: every extraction, funding.py's included, keeps
\* the order of the source.
C22_SourceOrderKept ==
    /\ InFetchOrder(funding_events) /\ InRecordOrder(funding_events)
    /\ InFetchOrder(defunding_events) /\ InRecordOrder(defunding_events)
    /\ InFetchOrder(SavedFunding) /\ InRecordOrder(SavedFunding)

\* C22 as the code has it: get_funding and get_defunding keep the order of
\* the source and sort nothing; funding.build_wallet_funding saves its
\* events in ascending block order, events of one record in source order.
C22_OrderKeptOrByBlock ==
    /\ InFetchOrder(funding_events) /\ InRecordOrder(funding_events)
    /\ InFetchOrder(defunding_events) /\ InRecordOrder(defunding_events)
    /\ InBlockOrder(SavedFunding) /\ InRecordOrder(SavedFunding)

\* funding.py saved three events, two of one record; the record fetched
\* second comes first in the file.
C22_Witness ==
    /\ pc = "built"
    /\ Len(SavedFunding) = 3
    /\ SavedFunding[1].hash = 2
    /\ SavedFunding[2].hash = 1
    /\ SavedFunding[3].hash = 1

\* get_defunding returned two events of two records.
C22_WitnessDefunding ==
    /\ pc = "done"
    /\ Len(defunding_events) >= 2
    /\ \E a, b \in 1..Len(defunding_events) :
         defunding_events[a].hash # defunding_events[b].hash

(***************************************************************************)
(* C23: in the funding_v1 / defunding path no ERC-20 event is dropped      *)
(* because of a bound on its USD value: a token transfer that passes the   *)
(* direction, amount and symbol filters is emitted whatever its usd is,    *)
(* also when usd <= 0 or usd > 1,000,000.                                  *)
(***************************************************************************)
PassesTokenFilters(t) ==
    t.value_formatted >= Erc20Floor /\ GetStr(t.token_symbol, "UNKNOWN") # "UNKNOWN"

InboundTokensEmitted ==
    \A n \in 1..FundingParsed : \A k \in 1..Len(all_txs[n].erc20_transfers) :
        LET tx == all_txs[n]
            t == tx.erc20_transfers[k]
        IN  IsInboundFor(t, WALLET) /\ PassesTokenFilters(t) => Erc20EmittedInbound(tx, t)

OutboundTokensEmitted ==
    \A n \in 1..DefundingParsed : \A k \in 1..Len(all_txs[n].erc20_transfers) :
        LET tx == all_txs[n]
            t == tx.erc20_transfers[k]
        IN  IsOutboundFor(t, target) /\ PassesTokenFilters(t) => Erc20EmittedOutbound(tx, t)

C23_NoUsdSanityBound == InboundTokensEmitted /\ OutboundTokensEmitted

\* What holds: defunding.parse_erc20 has no bound on usd.
C23_DefundingNoUsdBound == OutboundTokensEmitted

(***************************************************************************)
(* C24: the contract check is made only for a transfer that has passed     *)
(* the direction, self-transfer, minimum-amount, symbol and price filters  *)
(* and whose counterparty is in no registry: no check is made for a        *)
(* transfer that is then dropped, and every transfer that reaches          *)
(* classification is emitted.                                              *)
(***************************************************************************)
\* The k-th check was made for the k-th emitted event whose counterparty is
\* in no registry, and for no other transfer.
C24_CheckOnlyForEmitted ==
    /\ Len(checks) = Len(CheckedEvents)
    /\ \A k \in 1..Len(checks) :
         LET e == CheckedEvents[k]
         IN  /\ k <= InboundChecks =>
                  /\ checks[k].address = e.from
                  /\ e.from \notin KNOWN_SOURCES
                  /\ e.from # WALLET
             /\ k > InboundChecks =>
                  /\ checks[k].address = e.to
                  /\ e.to \notin KNOWN_SINKS
                  /\ e.to # target
             /\ e.token = "ETH" => e.amount >= EthDustFloor /\ e.timestamp \in DOMAIN ETH_PRICE_DB
             /\ e.token # "ETH" => e.amount >= Erc20Floor /\ e.token # "UNKNOWN"
    /\ \A e \in Range(funding_events) : e.status = "accepted" => e.from \in KNOWN_SOURCES
    /\ \A e \in Range(defunding_events) : e.status = "accepted" => e.to \in KNOWN_SINKS

\* A finished run over two records with sender 0xx, in no registry: the
\* first transfer is dust and is dropped, the second is emitted; one check
\* was made on the inbound side.
C24_Witness ==
    /\ pc = "done"
    /\ Len(all_txs) = 2
    /\ all_txs[1].native_transfers = << NativeT("0xx", "0xw", 9) >>
    /\ all_txs[2].native_transfers = << NativeT("0xx", "0xw", 1503) >>
    /\ address = "0xW"
    /\ Len(funding_events) = 1
    /\ InboundChecks = 1

(***************************************************************************)
(* C25: the price cache is transparent: against sources that answer a      *)
(* request the same way every time, each lookup returns what a lookup      *)
(* without a cache would return; an unavailable result is never stored,    *)
(* so a key that failed is looked up remotely again, and a key that        *)
(* succeeded returns the same value on every later lookup.                 *)
(***************************************************************************)
\* The request a lookup stands for, and what a resolver without a cache
\* returns for it when the source answers res.
RequestOf(l) ==
    IF l.fn = "get_usd_price" THEN <<l.token, l.timestamp>>
    ELSE <<"ETH-USD", DateOfTimestamp(l.timestamp)>>

Uncached(l, res) ==
    IF l.fn = "get_usd_price"
    THEN get_usd_price(l.token, l.timestamp, NoPrices(PriceKeys), res).result
    ELSE get_price_at_time(l.timestamp, NoPrices(PriceDates), res).result

\* The lookup made last returned what the source's answer to its request gives.
ReturnsUncachedValue(l) ==
    ~IsNone(remote_answers[RequestOf(l)]) =>
        l.result = Uncached(l, Val(remote_answers[RequestOf(l)]))

\* No cache holds an unavailable result, and a lookup whose key was in no
\* cache and no static table asked the source.
NothingUnavailableStored ==
    /\ \A k \in PriceKeys : IsNone(price_cache[k]) \/ Truthy(price_cache[k])
    /\ \A d \in PriceDates : IsNone(engine_cache[d]) \/ Truthy(engine_cache[d])
    /\ lookup # None =>
         LET l == Val(lookup)
         IN  /\ (IsNone(l.cached) /\ ~(l.fn = "get_price_at_time" /\ InOfflineTable(l)))
                    => l.remote
             /\ ~IsNone(l.cached) => l.result = l.cached /\ ~l.remote

C25_CacheTransparent ==
    /\ lookup # None => ReturnsUncachedValue(Val(lookup))
    /\ NothingUnavailableStored

\* What holds: the engine's cache is transparent, and neither cache stores
\* an unavailable result.
C25_EngineCacheTransparent ==
    /\ (lookup # None /\ Val(lookup).fn = "get_price_at_time") =>
          ReturnsUncachedValue(Val(lookup))
    /\ NothingUnavailableStored

(***************************************************************************)
(* C26: the current portfolio value get_portfolio returns equals the sum   *)
(* of the USD quotes of exactly the tokens it lists, the non-spam tokens   *)
(* worth at least 0.01 USD; it is 0 when no token passes those filters.    *)
(***************************************************************************)
RECURSIVE SumUsd(_)
SumUsd(tokens) == IF tokens = << >> THEN 0 ELSE Head(tokens).usd + SumUsd(Tail(tokens))

\* Every listed token is worth at least a cent and none is a spam symbol.
ListsOnlyGoodTokens(tokens) ==
    \A k \in 1..Len(tokens) :
        tokens[k].usd >= 10 /\ tokens[k].symbol \notin {"SPAM", "SPAMS", "DENY", "DUST", "NONE"}

C26_ValueIsSumOfListed ==
    portfolio # None =>
        /\ Val(portfolio).current_value_usd = SumUsd(Val(portfolio).tokens)
        /\ ListsOnlyGoodTokens(Val(portfolio).tokens)

\* What holds: a portfolio that lists a token is valued at the sum of the
\* quotes listed, and only good tokens are listed.
C26_ValueIsSumWhenListed ==
    portfolio # None =>
        /\ Val(portfolio).tokens # << >> =>
              Val(portfolio).current_value_usd = SumUsd(Val(portfolio).tokens)
        /\ ListsOnlyGoodTokens(Val(portfolio).tokens)

(***************************************************************************)
(* C27: for an email with a stored record (last_addr, last_ts) and a       *)
(* requested address different from last_addr, enforce_rate_limit refuses  *)
(* the request when fewer than 60 minutes have passed since last_ts, and a *)
(* refusal leaves the record unchanged; it grants it when 60 minutes or    *)
(* more have passed, and the record becomes (requested address, now).  An  *)
(* email with no stored record is granted and recorded.                    *)
(***************************************************************************)
\* The record the file held for the caller's email before the call made
\* last, the record it holds now, and the record a grant writes.
StoredBefore(c) == c.before[email_key(c.email)]

StoredNow(c) == rate_db[email_key(c.email)]

Recorded(c) == Some([last_addr |-> Some(c.address), last_ts |-> Some(c.at)])

IsSwitch(c) ==
    /\ c.email # ""
    /\ ~IsNone(StoredBefore(c))
    /\ Lower(c.address) # Lower(Val(Val(StoredBefore(c)).last_addr))

SinceLast(c) == c.at - Val(Val(StoredBefore(c)).last_ts)

WindowRule(c) ==
    /\ (IsSwitch(c) /\ SinceLast(c) < 60) => ~c.ok /\ StoredNow(c) = StoredBefore(c)
    /\ (IsSwitch(c) /\ SinceLast(c) >= 60) => c.ok /\ StoredNow(c) = Recorded(c)
    /\ (c.email # "" /\ IsNone(StoredBefore(c))) => c.ok /\ StoredNow(c) = Recorded(c)

C27_WindowEnforced == rate_call # None => WindowRule(Val(rate_call))

\* What holds: the rule, for a call that read and wrote the file without
\* an exception.
C27_WindowEnforcedWhenStoreWorks ==
    (rate_call # None /\ Val(rate_call).loaded /\ Val(rate_call).saved) =>
        WindowRule(Val(rate_call))

(***************************************************************************)
(* C28: enforce_rate_limit grants every request whose address equals the   *)
(* stored last_addr of that email, compared without regard to case,        *)
(* however little time has passed, and such a request leaves the store     *)
(* unchanged: last_ts is not refreshed, no other email's record is touched. *)
(***************************************************************************)
IsSameAddress(c) ==
    /\ c.email # ""
    /\ ~IsNone(StoredBefore(c))
    /\ Lower(c.address) = Lower(Val(Val(StoredBefore(c)).last_addr))

C28_SameAddressFree ==
    (rate_call # None /\ IsSameAddress(Val(rate_call))) =>
        Val(rate_call).ok /\ rate_db = Val(rate_call).before

\* What holds: the same, for a call that read the file without an exception.
C28_SameAddressFreeWhenRead ==
    (rate_call # None /\ IsSameAddress(Val(rate_call)) /\ Val(rate_call).loaded) =>
        Val(rate_call).ok /\ rate_db = Val(rate_call).before

\* The distance of two times.
AbsDiff(a, b) == IF a < b THEN b - a ELSE a - b

\* C29: for each email, two granted switches to different new addresses
\* are never less than 60 minutes apart, however the load, check and save
\* steps of the sessions interleave.
C29_OneSwitchPerWindow ==
    \A g \in grants, h \in grants :
        (g.key = h.key /\ g.address # h.address)
            => AbsDiff(g.at, h.at) >= THROTTLE_MINUTES

\* Two sessions of one email are between the check and the save of the
\* same call at once.
C29_TwoSessionsInside ==
    \E s \in Sessions, t \in Sessions :
        s # t /\ sessions[s].pc = "saving" /\ sessions[t].pc = "saving"
              /\ email_key(sessions[s].email) = email_key(sessions[t].email)

\* The steps of the run in progress.
PipelineFetches == {"cached_funding", "cached_defunding", "cached_portfolio"}

PanelFetches == {"panel_get_funding", "panel_get_portfolio"}

RunErrors == {"funding_error", "defunding_error", "balances_error", "pnl_error"}

\* Step a was taken before position k of the run.
TookBefore(a, k) == \E j \in 1..(k - 1) : app.steps[j] = a

\* Before position k the gate was passed, then the address was validated,
\* then enforce_rate_limit granted the request.
GatedBefore(k) ==
    \E g \in 1..(k - 1), v \in 1..(k - 1), t \in 1..(k - 1) :
        /\ g < v /\ v < t
        /\ app.steps[g] = "gate_passed"
        /\ app.steps[v] = "address_valid"
        /\ app.steps[t] = "granted"

\* compute_pnl comes after the three fetches and after no error, the ROI
\* after compute_pnl, and an error or a refusal is the last step of a run
\* that has stopped.
PnlAfterFetches ==
    \A k \in DOMAIN app.steps :
        /\ app.steps[k] = "compute_pnl" =>
              /\ \A f \in PipelineFetches : TookBefore(f, k)
              /\ \A e \in RunErrors : ~TookBefore(e, k)
        /\ app.steps[k] = "roi_shown" =>
              /\ TookBefore("compute_pnl", k)
              /\ \A e \in RunErrors : ~TookBefore(e, k)
        /\ app.steps[k] \in RunErrors \cup {"refused"} =>
              k = Len(app.steps) /\ app.pc = "stopped"

\* C30 as stated: no fetch of funding, defunding or portfolio starts in a
\* run before the email gate has passed, the address has matched ADDR_RE
\* and enforce_rate_limit has granted the request; compute_pnl runs after
\* the three fetches succeeded and a failed step stops the run with no ROI.
C30_NoFetchBeforeGrant ==
    /\ \A k \in DOMAIN app.steps :
          app.steps[k] \in PipelineFetches \cup PanelFetches =>
              GatedBefore(k) /\ ADDR_RE_match(app.addr)
    /\ PnlAfterFetches

\* The order of the run in progress: the fetches of the pipeline come after
\* gate, validation and grant; the direct fetches of the sanity panels come
\* after the gate, in a developer's session; enforce_rate_limit is called
\* after the validation only.
C30_RunOrder ==
    /\ \A k \in DOMAIN app.steps :
          /\ app.steps[k] \in PipelineFetches =>
                GatedBefore(k) /\ ADDR_RE_match(app.addr)
          /\ app.steps[k] \in PanelFetches \cup {"rate_limit_reset"} =>
                TookBefore("gate_passed", k) /\ app.user_email = DevEmail
          /\ app.steps[k] \in {"granted", "refused"} =>
                TookBefore("address_valid", k) /\ ADDR_RE_match(app.addr)
    /\ PnlAfterFetches

\* The rate-limit file changes only in the throttle step of a run whose
\* address is valid, or by a developer's reset.
C30_RecordFrame ==
    rate_db' # rate_db =>
        \/ app.pc = "throttle" /\ ADDR_RE_match(app.addr)
        \/ app.pc = "dev_reset" /\ app.user_email = DevEmail

\* C30: in the app run the fetches of the pipeline start only after the
\* email gate has passed, the address has matched ADDR_RE and
\* enforce_rate_limit has granted the request, in that order, so that a run
\* with an invalid address never calls enforce_rate_limit; compute_pnl runs
\* only after the three fetches succeeded, and a failed step or a refusal
\* ends the run with no ROI shown. The sanity panels of developer mode call
\* get_funding and get_portfolio after the email gate alone.
C30_PipelineGated == []C30_RunOrder /\ [][C30_RecordFrame]_vars

\* A developer's run that fetched in a sanity panel, went through the
\* pipeline and showed the ROI.
C30_Witness ==
    /\ app.pc = "shown"
    /\ \E k \in DOMAIN app.steps : app.steps[k] = "panel_get_funding"
    /\ \E k \in DOMAIN app.steps : app.steps[k] = "roi_shown"

=============================================================================
